---- MODULE Spec2Model ----
(***************************************************************************)
(* Model of the audio transcription application                            *)
(* (ProjectTwo/audio_transcription_app): the retry loop of one remote      *)
(* transcription call, the bounded-concurrency batch that drives those     *)
(* calls, the segmentation of a source into chunks, and the job stores     *)
(* with the request handlers of main.py.                                   *)
(*                                                                         *)
(* The specifications that share the module:                               *)
(*   SpecCall   one transcribe_chunk call with its full attempt history    *)
(*   SpecCallLive  the same call under the scheduling of the event loop    *)
(*   Spec       one transcribe_file_chunks batch (semaphore, as_completed  *)
(*              collection, sort, store)                                   *)
(*   SpecSeg    _create_intelligent_chunks on one decoded source           *)
(*   SpecSpeech the same on utterances separated by pauses                 *)
(*   SpecApp    the application from its start: uploads, background jobs,  *)
(*              status, summary, validate and delete requests              *)
(*   SpecStatus get_processing_status over every content of the stores     *)
(*   SpecCleanup  cleanup_temp_files over every content of the directory   *)
(*   SpecProcess  process_audio_file, called repeatedly on one source,     *)
(*              with failing decodes and writes                            *)
(*   SpecModel  construction of an AudioFileModel from its arguments       *)
(*   SpecAppLive  SpecApp with every scheduled background job run to its   *)
(*              end                                                        *)
(*   SpecLive   the batch under the scheduling of the event loop, its      *)
(*              chunks in index order                                      *)
(*   SpecExport export_transcription over every content of the stores      *)
(* Times of the segmentation are held in milliseconds; the float x / 1000   *)
(* of the source is held by x, and what the source computes from such      *)
(* floats is computed on their exact values.                               *)
(***************************************************************************)
EXTENDS Integers, Sequences, FiniteSets, TLC

VARIABLES
    \* ---- one transcribe_chunk call (SpecCall)
    use_mock,       \* ElevenLabsTranscriptionService._use_mock
    c_pc,           \* "off" | "calling" | "sleeping" | "returned" | "raised"
    c_attempt,      \* loop variable `attempt` of _call_elevenlabs_api
    c_resps,        \* history: what the remote capability answered, per call
    c_sleeps,       \* history: the argument of every asyncio.sleep of the loop
    c_out,          \* what transcribe_chunk returned or raised
    \* ---- one batch (Spec)
    chunks,         \* the list handed to transcribe_multiple_chunks
    max_concurrent, \* its max_concurrent argument
    batch_pc,       \* "idle" | "collecting" | "returned" | "raised"
    sem,            \* asyncio.Semaphore._value
    tpc,            \* per chunk id: "waiting" | "calling" | "sleeping" | "ok" | "failed"
    tattempt,       \* per chunk id: `attempt` of its running _call_elevenlabs_api (0 when none)
    tout,           \* per chunk id: the settled task's result or exception
    done_q,         \* asyncio.as_completed: settled tasks not yet awaited
    results,        \* local `results` of transcribe_multiple_chunks
    completed,      \* local `completed` of transcribe_multiple_chunks
    transcriptions_storage, \* main.transcriptions_storage
    error_log,      \* logger.error lines of transcribe_file_chunks
    \* ---- segmentation (SpecSeg)
    audio,          \* the decoded source: a sequence of sound / silence spans
    chunk_duration, \* AudioProcessor.chunk_duration (milliseconds)
    detect_fails,   \* whether pydub's silence detection raises on this source
    seg_pc,         \* "off" | "new" | "loaded" | "done" | "returned" | "raised"
    seg_mode,       \* "none" | "silence" | "fallback"
    seg_raw,        \* the list _split_on_silence returned
    seg_chunks,     \* the list _create_intelligent_chunks returned
    chunk_files,    \* output_dir/chunks: file name -> the stored audio
    \* ---- the job stores and the endpoints of main.py (SpecApp, SpecStatus)
    file_storage,   \* main.file_storage: file id -> AudioFileModel
    chunks_storage, \* main.chunks_storage: file id -> list of AudioChunk
    validations_storage, \* main.validations_storage: chunk id -> ValidationEdit
    processed_files,\* output_dir: names of the processed originals
    jobs,           \* background tasks: file id -> "running" | "returned" | "raised"
    resp            \* what the last request handler (or the call under study) returned
                    \* or raised

callVars  == <<use_mock, c_pc, c_attempt, c_resps, c_sleeps, c_out>>
batchVars == <<chunks, max_concurrent, batch_pc, sem, tpc, tattempt, tout,
               done_q, results, completed, transcriptions_storage, error_log>>
segVars   == <<audio, chunk_duration, detect_fails, seg_pc, seg_mode, seg_raw, seg_chunks,
               chunk_files>>
appVars   == <<file_storage, chunks_storage, validations_storage, processed_files,
               jobs, resp>>
vars      == <<callVars, batchVars, segVars, appVars>>

----------------------------------------------------------------------------
(* Bounds of the model *)

MaxChunks == 3          \* chunks in one batch
MaxSpans == 5           \* sound / silence spans in one source

(* Program constants *)

max_retries == 3        \* transcription_service.py:38
retry_delay == 1        \* transcription_service.py:39 (seconds)
DefaultMaxConcurrent == 3   \* main.py:159, transcription_service.py:87
NumMockTexts == 8       \* transcription_service.py:195-204
min_silence_len == 500  \* audio_processor.py:40 (ms)
keep_silence == 100     \* audio_processor.py:185 (ms)
min_chunk_duration == 5000  \* audio_processor.py:189 (ms)
DefaultChunkDuration == 30000   \* audio_processor.py:39, 43: 30 * 1000 ms

----------------------------------------------------------------------------
(* Generic helpers *)

RECURSIVE Pow2(_)
Pow2(n) == IF n = 0 THEN 1 ELSE 2 * Pow2(n - 1)

Range(s) == {s[i] : i \in DOMAIN s}

Min(a, b) == IF a < b THEN a ELSE b
Max(a, b) == IF a > b THEN a ELSE b

RECURSIVE SumSeq(_)
SumSeq(s) == IF s = <<>> THEN 0 ELSE Head(s) + SumSeq(Tail(s))

Perms(S) == {p \in [1..Cardinality(S) -> S] : Range(p) = S}

----------------------------------------------------------------------------
(* The remote capability: what one session.post can end in *)

Http(status, text) == [kind |-> "http", status |-> status, text |-> text]
Timeout     == [kind |-> "timeout"]       \* asyncio.TimeoutError
ClientError == [kind |-> "error"]         \* any other exception of the request

Responses(texts) ==
    {Http(200, t) : t \in texts} \cup {Http(429, ""), Http(500, "")}
        \cup {Timeout, ClientError}

IsRateLimit(r) == r.kind = "http" /\ r.status = 429
IsSuccess(r)   == r.kind = "http" /\ r.status = 200
IsTimeout(r)   == r.kind = "timeout"
IsOtherHttp(r) == r.kind = "http" /\ r.status \notin {200, 429}

----------------------------------------------------------------------------
(* _call_elevenlabs_api: one iteration of `for attempt in range(max_retries)` *)

\* mutant of CanRetry: the guard compares against max_retries itself
CanRetryOffByOne(attempt) == attempt < max_retries

\* `if attempt < self.max_retries - 1`
CanRetry(attempt) == attempt < max_retries - 1

\* mutant of RateLimitWait: no doubling
RateLimitWaitFlat(attempt) == retry_delay

\* `wait_time = self.retry_delay * (2 ** attempt)`
RateLimitWait(attempt) == retry_delay * Pow2(attempt)

Return(text)  == [next |-> "return", text |-> text, delay |-> 0, error |-> ""]
Sleep(delay)  == [next |-> "sleep", text |-> "", delay |-> delay, error |-> ""]
Raise(error)  == [next |-> "raise", text |-> "", delay |-> 0, error |-> error]

\* `except Exception as e:` -- also entered by the exceptions the try body raises
\* itself (lines 162 and 165)
ExceptException(attempt, error) ==
    IF CanRetry(attempt) THEN Sleep(retry_delay) ELSE Raise(error)

\* `except asyncio.TimeoutError:`
ExceptTimeout(attempt) ==
    IF CanRetry(attempt)
    THEN Sleep(retry_delay)
    ELSE Raise("Request timed out after max retries")

\* the body of the loop for the answer r of this attempt's request
HandleResponse(attempt, r) ==
    IF r.kind = "timeout" THEN ExceptTimeout(attempt)
    ELSE IF r.kind = "error" THEN ExceptException(attempt, "client error")
    ELSE IF r.status = 200 THEN Return(r.text)
    ELSE IF r.status = 429
         THEN IF CanRetry(attempt)
              THEN Sleep(RateLimitWait(attempt))
              ELSE ExceptException(attempt, "Rate limited after max retries")
    ELSE ExceptException(attempt, "API error")

\* `continue` after a sleep: the next iteration, or the statement after the loop
AfterSleep(attempt) ==
    IF attempt + 1 < max_retries
    THEN [next |-> "call", error |-> ""]
    ELSE [next |-> "raise", error |-> "Max retries exceeded"]

----------------------------------------------------------------------------
(* transcribe_chunk *)

\* _mock_transcription: the text is selected by chunk_index
MockText(chunk) == <<"mock", chunk.chunk_index % NumMockTexts>>

TranscriptionResult(chunk, text, mock) ==
    [chunk_id |-> chunk.id,
     raw_transcription |-> text,
     service |-> IF mock THEN "mock" ELSE "elevenlabs",
     chunk_index |-> chunk.chunk_index]

\* what the awaited call of transcribe_chunk does with the remote's answer
TranscribeStep(chunk, attempt, r, mock) ==
    IF mock THEN Return(MockText(chunk)) ELSE HandleResponse(attempt, r)

NoOut == [kind |-> "none"]
ResultOut(res) == [kind |-> "result", result |-> res]
RaisedOut(err) == [kind |-> "raised", error |-> err]

----------------------------------------------------------------------------
(* SpecCall: one transcribe_chunk call, with the history of its attempts *)

Texts == {"", "hello"}

CallChunk == [id |-> <<"uuid", 0>>, chunk_index |-> 0]

BatchOff ==
    /\ chunks = <<>>
    /\ max_concurrent = 0
    /\ batch_pc = "off"
    /\ sem = 0
    /\ tpc = <<>>
    /\ tattempt = <<>>
    /\ tout = <<>>
    /\ done_q = <<>>
    /\ results = <<>>
    /\ completed = 0
    /\ transcriptions_storage = <<>>
    /\ error_log = <<>>

\* the AudioProcessor as main.py constructs it, before any call
SegOff ==
    /\ audio = <<>>
    /\ chunk_duration = DefaultChunkDuration
    /\ detect_fails = FALSE
    /\ seg_pc = "off"
    /\ seg_mode = "none"
    /\ seg_raw = <<>>
    /\ seg_chunks = <<>>
    /\ chunk_files = <<>>

NoResp == [kind |-> "none"]

AppOff ==
    /\ file_storage = <<>>
    /\ chunks_storage = <<>>
    /\ validations_storage = <<>>
    /\ processed_files = {}
    /\ jobs = <<>>
    /\ resp = NoResp

CallOff ==
    /\ c_pc = "off"
    /\ c_attempt = 0
    /\ c_resps = <<>>
    /\ c_sleeps = <<>>
    /\ c_out = NoOut

CallInit ==
    /\ use_mock \in BOOLEAN
    /\ c_pc = "calling"
    /\ c_attempt = 0
    /\ c_resps = <<>>
    /\ c_sleeps = <<>>
    /\ c_out = NoOut
    /\ BatchOff
    /\ SegOff
    /\ AppOff

\* the request of the current attempt is answered by r
CallRespond(r) ==
    /\ c_pc = "calling"
    /\ ~use_mock
    /\ LET step == TranscribeStep(CallChunk, c_attempt, r, FALSE) IN
        /\ c_resps' = Append(c_resps, r)
        /\ c_pc' = CASE step.next = "return" -> "returned"
                     [] step.next = "sleep"  -> "sleeping"
                     [] step.next = "raise"  -> "raised"
        /\ c_sleeps' = IF step.next = "sleep"
                       THEN Append(c_sleeps, step.delay) ELSE c_sleeps
        /\ c_out' = CASE step.next = "return" ->
                            ResultOut(TranscriptionResult(CallChunk, step.text, FALSE))
                      [] step.next = "sleep"  -> c_out
                      [] step.next = "raise"  -> RaisedOut(step.error)
    /\ UNCHANGED <<use_mock, c_attempt, batchVars, segVars, appVars>>

\* the mock service's simulated processing time has passed
CallMock ==
    /\ c_pc = "calling"
    /\ use_mock
    /\ LET step == TranscribeStep(CallChunk, c_attempt, Timeout, TRUE) IN
        /\ c_pc' = "returned"
        /\ c_out' = ResultOut(TranscriptionResult(CallChunk, step.text, TRUE))
    /\ UNCHANGED <<use_mock, c_attempt, c_resps, c_sleeps, batchVars, segVars, appVars>>

\* a backoff sleep ends
CallWake ==
    /\ c_pc = "sleeping"
    /\ LET after == AfterSleep(c_attempt) IN
        IF after.next = "call"
        THEN /\ c_pc' = "calling"
             /\ c_attempt' = c_attempt + 1
             /\ c_out' = c_out
        ELSE /\ c_pc' = "raised"
             /\ c_attempt' = c_attempt
             /\ c_out' = RaisedOut(after.error)
    /\ UNCHANGED <<use_mock, c_resps, c_sleeps, batchVars, segVars, appVars>>

CallNext ==
    \/ \E r \in Responses(Texts) : CallRespond(r)
    \/ CallMock
    \/ CallWake

SpecCall == CallInit /\ [][CallNext]_vars

----------------------------------------------------------------------------
(* Spec: one background batch, transcribe_file_chunks over                  *)
(* transcribe_multiple_chunks                                               *)

BatchTexts == {"hello"}

\* the chunks of one source: AudioChunk.id is a fresh uuid, chunk_index its ordinal
ChunkSet(n) == {[id |-> <<"uuid", k>>, chunk_index |-> k] : k \in 0..(n - 1)}

Ids == {chunks[i].id : i \in DOMAIN chunks}

ChunkOf(id) == CHOOSE c \in Range(chunks) : c.id = id

\* mutant of NewSemaphore: one slot too many
NewSemaphoreOffByOne(n) == n + 1

\* `semaphore = asyncio.Semaphore(max_concurrent)`
NewSemaphore(n) == n

\* as SemFree, with the last slot never granted
SemFreeAboveOne(value) == value > 1

\* `async with semaphore:` enters without waiting when a slot is free
SemFree(value) == value > 0

\* the sort key: `next(chunk.chunk_index for chunk in chunks if chunk.id == r.chunk_id)`
SortKey(r, cs) ==
    cs[CHOOSE i \in DOMAIN cs :
            /\ cs[i].id = r.chunk_id
            /\ \A j \in DOMAIN cs : cs[j].id = r.chunk_id => i <= j].chunk_index

RECURSIVE InsertSorted(_, _, _)
InsertSorted(r, s, cs) ==
    IF s = <<>> THEN <<r>>
    ELSE IF SortKey(r, cs) < SortKey(Head(s), cs) THEN <<r>> \o s
    ELSE <<Head(s)>> \o InsertSorted(r, Tail(s), cs)

\* mutant of SortResults: the list is returned in completion order
SortResultsOmitted(rs, cs) == rs

\* `results.sort(key=...)`: a stable sort by the key
RECURSIVE SortResults(_, _)
SortResults(rs, cs) ==
    IF rs = <<>> THEN <<>>
    ELSE InsertSorted(rs[Len(rs)], SortResults(SubSeq(rs, 1, Len(rs) - 1), cs), cs)

\* transcribe_file_chunks: `for result in results: transcriptions_storage[...] = result`
StoreResults(store, rs) ==
    [id \in DOMAIN store \cup {rs[i].chunk_id : i \in DOMAIN rs} |->
        IF \E i \in DOMAIN rs : rs[i].chunk_id = id
        THEN rs[CHOOSE i \in DOMAIN rs :
                    /\ rs[i].chunk_id = id
                    /\ \A j \in DOMAIN rs : rs[j].chunk_id = id => j <= i]
        ELSE store[id]]

BatchInit ==
    /\ use_mock \in BOOLEAN
    /\ \E n \in 0..MaxChunks : chunks \in Perms(ChunkSet(n))
    /\ max_concurrent \in 1..DefaultMaxConcurrent
    /\ batch_pc = "idle"
    /\ sem = 0
    /\ tpc = <<>>
    /\ tattempt = <<>>
    /\ tout = <<>>
    /\ done_q = <<>>
    /\ results = <<>>
    /\ completed = 0
    /\ transcriptions_storage = <<>>
    /\ error_log = <<>>
    /\ CallOff
    /\ SegOff
    /\ AppOff

\* transcribe_file_chunks starts: the semaphore and one task per chunk are
\* created; with no chunk the collection loop is empty and the call returns
StartBatch ==
    /\ batch_pc = "idle"
    /\ sem' = NewSemaphore(max_concurrent)
    /\ tpc' = [id \in Ids |-> "waiting"]
    /\ tattempt' = [id \in Ids |-> 0]
    /\ tout' = [id \in Ids |-> NoOut]
    /\ IF chunks = <<>>
       THEN /\ batch_pc' = "returned"
            /\ results' = SortResults(results, chunks)
            /\ transcriptions_storage' =
                    StoreResults(transcriptions_storage, results')
       ELSE /\ batch_pc' = "collecting"
            /\ UNCHANGED <<results, transcriptions_storage>>
    /\ UNCHANGED <<chunks, max_concurrent, done_q, completed, error_log,
                   callVars, segVars, appVars>>

\* a task enters `async with semaphore` and starts its transcribe_chunk
Acquire(t) ==
    /\ batch_pc # "idle"
    /\ t \in DOMAIN tpc
    /\ tpc[t] = "waiting"
    /\ SemFree(sem)
    /\ sem' = sem - 1
    /\ tpc' = [tpc EXCEPT ![t] = "calling"]
    /\ UNCHANGED <<chunks, max_concurrent, batch_pc, tattempt, tout, done_q,
                   results, completed, transcriptions_storage, error_log,
                   callVars, segVars, appVars>>

\* a task's awaited call ends (the remote answers r, or the mock's sleep
\* is over): it sleeps for a retry, or leaves the `async with`, settled
Respond(t, r) ==
    /\ t \in DOMAIN tpc
    /\ tpc[t] = "calling"
    /\ LET step == TranscribeStep(ChunkOf(t), tattempt[t], r, use_mock)
           settled == step.next # "sleep"
       IN
        /\ tpc' = [tpc EXCEPT ![t] =
                        CASE step.next = "return" -> "ok"
                          [] step.next = "sleep"  -> "sleeping"
                          [] step.next = "raise"  -> "failed"]
        /\ tout' = [tout EXCEPT ![t] =
                        CASE step.next = "return" ->
                                ResultOut(TranscriptionResult(ChunkOf(t), step.text, use_mock))
                          [] step.next = "sleep"  -> NoOut
                          [] step.next = "raise"  -> RaisedOut(step.error)]
        /\ sem' = IF settled THEN sem + 1 ELSE sem
        /\ tattempt' = IF settled THEN [tattempt EXCEPT ![t] = 0] ELSE tattempt
        /\ done_q' = IF settled /\ batch_pc = "collecting"
                     THEN Append(done_q, t) ELSE done_q
    /\ UNCHANGED <<chunks, max_concurrent, batch_pc, results,
                   completed, transcriptions_storage, error_log, callVars, segVars, appVars>>

\* a task's backoff sleep ends
Wake(t) ==
    /\ t \in DOMAIN tpc
    /\ tpc[t] = "sleeping"
    /\ LET after == AfterSleep(tattempt[t]) IN
        IF after.next = "call"
        THEN /\ tpc' = [tpc EXCEPT ![t] = "calling"]
             /\ tattempt' = [tattempt EXCEPT ![t] = @ + 1]
             /\ UNCHANGED <<tout, sem, done_q>>
        ELSE /\ tpc' = [tpc EXCEPT ![t] = "failed"]
             /\ tout' = [tout EXCEPT ![t] = RaisedOut(after.error)]
             /\ sem' = sem + 1
             /\ done_q' = IF batch_pc = "collecting"
                          THEN Append(done_q, t) ELSE done_q
             /\ tattempt' = [tattempt EXCEPT ![t] = 0]
    /\ UNCHANGED <<chunks, max_concurrent, batch_pc, results, completed,
                   transcriptions_storage, error_log, callVars, segVars, appVars>>

\* as Collect, with the results collected before the exception stored
CollectStoresCollected ==
    /\ batch_pc = "collecting"
    /\ done_q # <<>>
    /\ LET t == Head(done_q) IN
        IF tout[t].kind = "result"
        THEN LET rs == Append(results, tout[t].result) IN
             /\ completed' = completed + 1
             /\ IF completed' = Len(chunks)
                THEN /\ results' = SortResults(rs, chunks)
                     /\ batch_pc' = "returned"
                     /\ transcriptions_storage' =
                            StoreResults(transcriptions_storage, results')
                ELSE /\ results' = rs
                     /\ UNCHANGED <<batch_pc, transcriptions_storage>>
             /\ UNCHANGED error_log
        ELSE /\ batch_pc' = "raised"
             /\ error_log' = Append(error_log, tout[t].error)
             /\ transcriptions_storage' = StoreResults(transcriptions_storage, results)
             /\ UNCHANGED <<results, completed>>
    /\ done_q' = IF batch_pc' = "collecting" THEN Tail(done_q) ELSE <<>>
    /\ UNCHANGED <<chunks, max_concurrent, sem, tpc, tattempt, tout,
                   callVars, segVars, appVars>>

\* as Collect, with the counter stepped before the await, so that the task
\* that raises is counted too
CollectCountsBeforeAwait ==
    /\ batch_pc = "collecting"
    /\ done_q # <<>>
    /\ completed' = completed + 1
    /\ LET t == Head(done_q) IN
        IF tout[t].kind = "result"
        THEN LET rs == Append(results, tout[t].result) IN
             /\ IF completed' = Len(chunks)
                THEN /\ results' = SortResults(rs, chunks)
                     /\ batch_pc' = "returned"
                     /\ transcriptions_storage' =
                            StoreResults(transcriptions_storage, results')
                ELSE /\ results' = rs
                     /\ UNCHANGED <<batch_pc, transcriptions_storage>>
             /\ UNCHANGED error_log
        ELSE /\ batch_pc' = "raised"
             /\ error_log' = Append(error_log, tout[t].error)
             /\ UNCHANGED <<results, transcriptions_storage>>
    /\ done_q' = IF batch_pc' = "collecting" THEN Tail(done_q) ELSE <<>>
    /\ UNCHANGED <<chunks, max_concurrent, sem, tpc, tattempt, tout,
                   callVars, segVars, appVars>>

\* the collection loop awaits the next settled task: `result = await coro`.
\* A result is appended and counted; after the last one the list is sorted,
\* returned and stored by transcribe_file_chunks. An exception leaves the loop
\* and transcribe_multiple_chunks; transcribe_file_chunks logs it.
Collect ==
    /\ batch_pc = "collecting"
    /\ done_q # <<>>
    /\ LET t == Head(done_q) IN
        IF tout[t].kind = "result"
        THEN LET rs == Append(results, tout[t].result) IN
             /\ completed' = completed + 1
             /\ IF completed' = Len(chunks)
                THEN /\ results' = SortResults(rs, chunks)
                     /\ batch_pc' = "returned"
                     /\ transcriptions_storage' =
                            StoreResults(transcriptions_storage, results')
                ELSE /\ results' = rs
                     /\ UNCHANGED <<batch_pc, transcriptions_storage>>
             /\ UNCHANGED error_log
        ELSE /\ batch_pc' = "raised"
             /\ error_log' = Append(error_log, tout[t].error)
             /\ UNCHANGED <<results, completed, transcriptions_storage>>
    /\ done_q' = IF batch_pc' = "collecting" THEN Tail(done_q) ELSE <<>>
    /\ UNCHANGED <<chunks, max_concurrent, sem, tpc, tattempt, tout,
                   callVars, segVars, appVars>>

\* what the remote answers in a batch: a success, a rate-limit signal or a
\* timeout (the other failures take the path of the timeout, see HandleResponse)
BatchResponses ==
    IF use_mock THEN {Timeout}
    ELSE {Http(200, t) : t \in BatchTexts} \cup {Http(429, ""), Timeout}

Next ==
    \/ StartBatch
    \/ \E t \in Ids : Acquire(t)
    \/ \E t \in Ids, r \in BatchResponses : Respond(t, r)
    \/ \E t \in Ids : Wake(t)
    \/ Collect

Spec == BatchInit /\ [][Next]_vars

----------------------------------------------------------------------------
(* SpecSeg: AudioProcessor._create_intelligent_chunks on one source          *)
(*                                                                          *)
(* A source is a sequence of spans, each sound or silence (below the        *)
(* threshold), with its length in ms. An AudioSegment cut from it is the    *)
(* sequence of the source ranges [from, to) it is made of.                  *)

SoundLens == {3000, 9900, 19900, 65000}
SilenceLens == {300, 1000}
TargetSeconds == {10, 30}

Span(kind, len) == [kind |-> kind, len |-> len]
SpansOf(kind) ==
    IF kind = "sound" THEN {Span("sound", l) : l \in SoundLens}
    ELSE {Span("silence", l) : l \in SilenceLens}
OtherKind(kind) == IF kind = "sound" THEN "silence" ELSE "sound"

RECURSIVE AudiosFrom(_, _)
AudiosFrom(kind, n) ==
    IF n = 0 THEN {<<>>}
    ELSE {<<s>> \o rest : s \in SpansOf(kind), rest \in AudiosFrom(OtherKind(kind), n - 1)}

Audios == UNION {AudiosFrom("sound", n) \cup AudiosFrom("silence", n) : n \in 0..MaxSpans}

\* len(audio) of the source
RECURSIVE SourceLen(_)
SourceLen(a) == IF a = <<>> THEN 0 ELSE Head(a).len + SourceLen(Tail(a))

\* position at which span i of the source begins
SpanStart(a, i) == SourceLen(SubSeq(a, 1, i - 1))

\* len(segment) of an AudioSegment
RECURSIVE ALen(_)
ALen(seg) == IF seg = <<>> THEN 0 ELSE (Head(seg).to - Head(seg).from) + ALen(Tail(seg))

\* audio[start:end] of the source
Slice(a, start, end) ==
    LET lo == Max(0, Min(start, SourceLen(a)))
        hi == Max(0, Min(end, SourceLen(a)))
    IN IF hi > lo THEN <<[from |-> lo, to |-> hi]>> ELSE <<>>

\* the whole source as an AudioSegment
Whole(a) == Slice(a, 0, SourceLen(a))

\* pydub.silence.detect_silence: the silent ranges of at least min_silence_len
RECURSIVE DetectSilenceFrom(_, _)
DetectSilenceFrom(a, i) ==
    IF i > Len(a) THEN <<>>
    ELSE IF a[i].kind = "silence" /\ a[i].len >= min_silence_len
         THEN <<[from |-> SpanStart(a, i), to |-> SpanStart(a, i) + a[i].len]>>
                \o DetectSilenceFrom(a, i + 1)
         ELSE DetectSilenceFrom(a, i + 1)

DetectSilence(a) ==
    IF SourceLen(a) < min_silence_len THEN <<>> ELSE DetectSilenceFrom(a, 1)

\* pydub.silence.detect_nonsilent: the complement of the silent ranges
RECURSIVE NonsilentBetween(_, _, _, _)
NonsilentBetween(silent, i, prev_end, total) ==
    IF i > Len(silent)
    THEN IF silent[Len(silent)].to # total
         THEN <<[from |-> prev_end, to |-> total]>> ELSE <<>>
    ELSE <<[from |-> prev_end, to |-> silent[i].from]>>
            \o NonsilentBetween(silent, i + 1, silent[i].to, total)

DetectNonsilent(a) ==
    LET silent == DetectSilence(a)
        total == SourceLen(a)
    IN IF silent = <<>> THEN <<[from |-> 0, to |-> total]>>
       ELSE IF silent[1].from = 0 /\ silent[1].to = total THEN <<>>
       ELSE LET ranges == NonsilentBetween(silent, 1, 0, total)
            IN IF ranges[1] = [from |-> 0, to |-> 0] THEN Tail(ranges) ELSE ranges

\* pydub.silence.split_on_silence: every nonsilent range widened by keep_silence,
\* neighbours that then overlap meet in the middle, ends clamped to the source
RECURSIVE MeetInMiddle(_, _)
MeetInMiddle(ranges, i) ==
    IF i >= Len(ranges) THEN ranges
    ELSE IF ranges[i + 1].from < ranges[i].to
         THEN LET mid == (ranges[i].to + ranges[i + 1].from) \div 2
              IN MeetInMiddle([ranges EXCEPT ![i].to = mid, ![i + 1].from = mid], i + 1)
         ELSE MeetInMiddle(ranges, i + 1)

PydubSplitOnSilence(a, keep) ==
    LET nonsilent == DetectNonsilent(a)
        widened == [i \in DOMAIN nonsilent |->
                        [from |-> nonsilent[i].from - keep, to |-> nonsilent[i].to + keep]]
        out == MeetInMiddle(widened, 1)
    IN [i \in DOMAIN out |-> Slice(a, out[i].from, out[i].to)]

\* `[chunk for chunk in chunks if len(chunk) >= min_chunk_duration]`
RECURSIVE FilterShort(_)
FilterShort(segs) ==
    IF segs = <<>> THEN <<>>
    ELSE IF ALen(Head(segs)) >= min_chunk_duration
         THEN <<Head(segs)>> \o FilterShort(Tail(segs))
         ELSE FilterShort(Tail(segs))

\* AudioProcessor._split_on_silence
SplitOnSilence(a, fails) ==
    IF fails THEN <<Whole(a)>>
    ELSE IF DetectSilence(a) = <<>> THEN <<Whole(a)>>
    ELSE LET filtered_chunks == FilterShort(PydubSplitOnSilence(a, keep_silence))
         IN IF filtered_chunks # <<>> THEN filtered_chunks ELSE <<Whole(a)>>

----------------------------------------------------------------------------
(* Python floats (IEEE 754 binary64) of the times in seconds                *)
(*                                                                          *)
(* A time the code holds as the float ms / 1000 is held in the model by its *)
(* integer ms: the division is one-to-one and keeps the order on the times  *)
(* that occur. What the code computes from such floats (the subtraction of  *)
(* _save_chunk, the :.1f of the export) is computed on the float's exact    *)
(* value: a non-negative float is the number of units of 2^-75 s it is,     *)
(* held in seven limbs of 15 bits, least significant first, so that limbs   *)
(* 1 to 5 are the fraction of a second and limbs 6 and 7 the whole seconds. *)
(* Every float ms / 1000 with ms >= 1, and every difference of two of them, *)
(* is a whole number of these units.                                        *)

LimbBase == 2^15
BigZero == <<0, 0, 0, 0, 0, 0, 0>>

RECURSIVE BigMulFrom(_, _, _, _)
BigMulFrom(x, k, i, carry) ==
    IF i > Len(x) THEN <<>>
    ELSE <<(x[i] * k + carry) % LimbBase>>
            \o BigMulFrom(x, k, i + 1, (x[i] * k + carry) \div LimbBase)

\* x * k for 0 <= k <= 2^15
BigMulSmall(x, k) == BigMulFrom(x, k, 1, 0)

RECURSIVE BigAddFrom(_, _, _, _)
BigAddFrom(x, y, i, carry) ==
    IF i > Len(x) THEN <<>>
    ELSE <<(x[i] + y[i] + carry) % LimbBase>>
            \o BigAddFrom(x, y, i + 1, (x[i] + y[i] + carry) \div LimbBase)

BigAdd(x, y) == BigAddFrom(x, y, 1, 0)

RECURSIVE BigSubFrom(_, _, _, _)
BigSubFrom(x, y, i, borrow) ==
    IF i > Len(x) THEN <<>>
    ELSE <<(x[i] - y[i] - borrow + LimbBase) % LimbBase>>
            \o BigSubFrom(x, y, i + 1, IF x[i] - y[i] - borrow < 0 THEN 1 ELSE 0)

\* x - y for x >= y
BigSub(x, y) == BigSubFrom(x, y, 1, 0)

BigLess(x, y) ==
    \E i \in DOMAIN x : x[i] < y[i] /\ \A j \in DOMAIN x : j > i => x[j] = y[j]

\* number of significant bits of x
BigBitLen(x) ==
    IF x = BigZero THEN 0
    ELSE LET top == CHOOSE i \in DOMAIN x : x[i] # 0 /\ \A j \in DOMAIN x : j > i => x[j] = 0
         IN 15 * (top - 1) + Cardinality({k \in 0..14 : 2^k <= x[top]})

\* x rounded to a multiple of 2^s (s >= 1), to the nearest and on a tie to
\* the even one; `sticky` says that x itself was cut off below one unit
RoundAt(x, s, sticky) ==
    LET k == s \div 15
        r == s % 15
        top == IF r > 0 THEN x[k + 1] % 2^r ELSE x[k]
        half == IF r > 0 THEN 2^(r - 1) ELSE 2^14
        rest_zero == \A i \in 1..(IF r > 0 THEN k ELSE k - 1) : x[i] = 0
        odd == (x[k + 1] \div 2^r) % 2 = 1
        up == \/ top > half
              \/ top = half /\ (~rest_zero \/ sticky \/ odd)
        Cut(i) == IF i <= k THEN 0
                  ELSE IF i = k + 1 THEN x[i] - (x[i] % 2^r)
                  ELSE x[i]
        Step(i) == IF i = k + 1 THEN 2^r ELSE 0
        cut == <<Cut(1), Cut(2), Cut(3), Cut(4), Cut(5), Cut(6), Cut(7)>>
    IN IF up
       THEN BigAdd(cut, <<Step(1), Step(2), Step(3), Step(4), Step(5), Step(6), Step(7)>>)
       ELSE cut

\* the float nearest to a number of units: 53 significant bits
SignificandBits == 53
RoundBits(x, bits, sticky) ==
    IF bits <= SignificandBits THEN x ELSE RoundAt(x, bits - SignificandBits, sticky)

RoundToFloat(x, sticky) ==
    CHOOSE rounded \in {RoundBits(v, BigBitLen(v), sticky) : v \in {x}} : TRUE

\* (ms * 2^(15 k)) mod 1000: what is left of ms / 1000 below k limbs of fraction
RECURSIVE RemAfter(_, _)
RemAfter(ms, k) ==
    IF k = 0 THEN ms % 1000 ELSE (RemAfter(ms, k - 1) * LimbBase) % 1000

\* `ms / 1000` of an int: the float nearest to the quotient
FloatOfMs(ms) ==
    LET Fraction(k) == (RemAfter(ms, k - 1) * LimbBase) \div 1000
    IN RoundToFloat(<<Fraction(5), Fraction(4), Fraction(3), Fraction(2), Fraction(1),
                      (ms \div 1000) % LimbBase, (ms \div 1000) \div LimbBase>>,
                    RemAfter(ms, 5) # 0)

\* `end_time - start_time` of two floats held by their ms
FloatDifference(end_time, start_time) ==
    RoundToFloat(BigSub(FloatOfMs(end_time), FloatOfMs(start_time)), FALSE)

----------------------------------------------------------------------------
FileId == <<"file-uuid", 0>>

\* mutant of ChunkFilename: neither the index nor the chunk id is in the name
ChunkFilenameOfFileOnly(file_id, chunk_index, chunk_id) ==
    <<"chunk", file_id, 0, <<"uuid", 0, 0>>, "wav">>

\* `chunk_filename = f"chunk_{file_id}_{chunk_index:03d}_{chunk_id}.wav"`
ChunkFilename(file_id, chunk_index, chunk_id) ==
    <<"chunk", file_id, chunk_index, chunk_id, "wav">>

\* AudioProcessor._save_chunk: the AudioChunk and the audio exported under its
\* name. start_time and end_time are the floats ms / 1000 the callers pass,
\* held by their ms; duration is the float their subtraction gives.
SaveChunk(chunk_audio, file_id, chunk_index, start_time, end_time, chunk_id) ==
    [chunk |-> [id |-> chunk_id,
                file_id |-> file_id,
                chunk_index |-> chunk_index,
                start_time |-> start_time,
                end_time |-> end_time,
                duration |-> FloatDifference(end_time, start_time),
                chunk_filename |-> ChunkFilename(file_id, chunk_index, chunk_id)],
     stored |-> chunk_audio]

\* uuid4 of the n-th chunk saved for the source
NewChunkId(n) == <<"uuid", n>>

\* where the chunk opened by `current_chunk = segment` is said to start
\* (`chunk_start_time + len(current_chunk) if chunk_index > 0 else 0`, evaluated
\* after current_chunk was replaced by the segment and before chunk_index grows)
NextChunkStart(chunk_start_time, segment, chunk_index) ==
    IF chunk_index > 0 THEN chunk_start_time + ALen(segment) ELSE 0

\* AudioProcessor._combine_chunks_to_target_duration: the loop from segment i on.
\* st = [current, start, index, out]
RECURSIVE CombineFrom(_, _, _, _, _)
CombineFrom(segs, i, st, target, file_id) ==
    IF i > Len(segs)
    THEN IF ALen(st.current) > 0
         THEN Append(st.out,
                     SaveChunk(st.current, file_id, st.index, st.start,
                               st.start + ALen(st.current), NewChunkId(Len(st.out))))
         ELSE st.out
    ELSE LET segment == segs[i] IN
         IF ALen(st.current) > 0 /\ ALen(st.current) + ALen(segment) > target
         THEN CombineFrom(segs, i + 1,
                [current |-> segment,
                 start |-> NextChunkStart(st.start, segment, st.index),
                 index |-> st.index + 1,
                 out |-> Append(st.out,
                            SaveChunk(st.current, file_id, st.index, st.start,
                                      st.start + ALen(st.current),
                                      NewChunkId(Len(st.out))))],
                target, file_id)
         ELSE CombineFrom(segs, i + 1,
                [current |-> st.current \o segment,
                 start |-> IF ALen(st.current) = 0
                           THEN SumSeq([j \in 1..(i - 1) |-> ALen(segs[j])])
                           ELSE st.start,
                 index |-> st.index,
                 out |-> st.out],
                target, file_id)

CombineChunksToTargetDuration(silence_chunks, target, file_id) ==
    CombineFrom(silence_chunks, 1,
                [current |-> <<>>, start |-> 0, index |-> 0, out |-> <<>>],
                target, file_id)

\* mutant of WindowEnd: the last window is not truncated
WindowEndUnclamped(start_ms, target, total_duration) == start_ms + target

\* `end_ms = min(start_ms + self.chunk_duration, total_duration)`
WindowEnd(start_ms, target, total_duration) == Min(start_ms + target, total_duration)

\* AudioProcessor._create_time_based_chunks: `for start_ms in range(0, total, step)`
RECURSIVE TimeBasedFrom(_, _, _, _, _)
TimeBasedFrom(a, start_ms, out, target, file_id) ==
    IF start_ms >= SourceLen(a) THEN out
    ELSE LET end_ms == WindowEnd(start_ms, target, SourceLen(a))
             chunk_audio == Slice(a, start_ms, end_ms)
         IN TimeBasedFrom(a, start_ms + target,
                Append(out, SaveChunk(chunk_audio, file_id, Len(out), start_ms,
                                      end_ms, NewChunkId(Len(out)))),
                target, file_id)

CreateTimeBasedChunks(a, target, file_id) ==
    TimeBasedFrom(a, 0, <<>>, target, file_id)

\* mutant of UseSilenceMode: one raw segment is enough for the combiner
UseSilenceModeFromOne(silence_chunks) == Len(silence_chunks) >= 1

\* `if len(silence_chunks) > 1:`
UseSilenceMode(silence_chunks) == Len(silence_chunks) > 1

SegInit ==
    /\ audio \in Audios
    /\ chunk_duration \in {s * 1000 : s \in TargetSeconds}
    /\ detect_fails \in BOOLEAN
    /\ seg_pc = "loaded"
    /\ seg_mode = "none"
    /\ seg_raw = <<>>
    /\ seg_chunks = <<>>
    /\ chunk_files = <<>>
    /\ use_mock = FALSE
    /\ CallOff
    /\ BatchOff
    /\ AppOff

\* what _create_intelligent_chunks saves for a source: the chunks of the
\* combiner or of the fixed windows, each with the audio written for it
IntelligentChunks(a, target, fails, file_id) ==
    LET silence_chunks == SplitOnSilence(a, fails)
    IN IF UseSilenceMode(silence_chunks)
       THEN CombineChunksToTargetDuration(silence_chunks, target, file_id)
       ELSE CreateTimeBasedChunks(a, target, file_id)

\* _create_intelligent_chunks: split on silence, then combine or fall back
CreateIntelligentChunks ==
    /\ seg_pc = "loaded"
    /\ \E silence_chunks \in {SplitOnSilence(audio, detect_fails)} :
       \E saved \in {IF UseSilenceMode(silence_chunks)
                     THEN CombineChunksToTargetDuration(silence_chunks, chunk_duration, FileId)
                     ELSE CreateTimeBasedChunks(audio, chunk_duration, FileId)} :
        /\ seg_raw' = silence_chunks
        /\ seg_mode' = IF UseSilenceMode(silence_chunks) THEN "silence" ELSE "fallback"
        /\ seg_chunks' = [i \in DOMAIN saved |-> saved[i].chunk]
        /\ chunk_files' = [name \in {saved[i].chunk.chunk_filename : i \in DOMAIN saved} |->
                            saved[CHOOSE i \in DOMAIN saved :
                                    saved[i].chunk.chunk_filename = name].stored]
    /\ seg_pc' = "done"
    /\ UNCHANGED <<audio, chunk_duration, detect_fails, callVars, batchVars, appVars>>

SegNext == CreateIntelligentChunks

SpecSeg == SegInit /\ [][SegNext]_vars

\* ---- SpecSpeech: _create_intelligent_chunks on speech, up to MaxSounds
\* utterances with a pause of one second between them

MaxSounds == 4
UtteranceLens == {3000, 4900, 9700}
Pause == Span("silence", 1000)

RECURSIVE SpeechOf(_)
SpeechOf(n) ==
    IF n = 1 THEN {<<Span("sound", l)>> : l \in UtteranceLens}
    ELSE {a \o <<Pause, Span("sound", l)>> : a \in SpeechOf(n - 1), l \in UtteranceLens}

SpeechInit ==
    /\ audio \in UNION {SpeechOf(n) : n \in 1..MaxSounds}
    /\ chunk_duration \in {s * 1000 : s \in TargetSeconds}
    /\ detect_fails \in BOOLEAN
    /\ seg_pc = "loaded"
    /\ seg_mode = "none"
    /\ seg_raw = <<>>
    /\ seg_chunks = <<>>
    /\ chunk_files = <<>>
    /\ use_mock = FALSE
    /\ CallOff
    /\ BatchOff
    /\ AppOff

SpecSpeech == SpeechInit /\ [][SegNext]_vars

----------------------------------------------------------------------------
(* Claims about one call (checked under SpecCall) *)

AllRateLimit(s) == \A i \in DOMAIN s : IsRateLimit(s[i])
AllTransient(s) == \A i \in DOMAIN s : IsRateLimit(s[i]) \/ IsTimeout(s[i])
Calls == Len(c_resps)       \* number of requests made so far
RealCall == c_pc # "off" /\ ~use_mock

\* the delays the claim expects after k rate-limit answers
ExpectedDelays(k) == [i \in 1..k |-> retry_delay * Pow2(i - 1)]

StrictlyIncreasing(s) == \A i \in 1..(Len(s) - 1) : s[i] < s[i + 1]

\* C4: if the remote answers 429 exactly k times (0 <= k < max_retries) and then
\* succeeds, _call_elevenlabs_api makes exactly k+1 requests, sleeps
\* retry_delay * 2^attempt after attempt 0..k-1 (strictly increasing delays), and
\* returns the text of the success answer; while only 429s have been seen and
\* fewer than max_retries requests were made, the call has not given up.
C4_RateLimitThenSuccess ==
    RealCall =>
        /\ (AllRateLimit(c_resps) /\ Calls < max_retries) =>
                /\ c_pc \in {"calling", "sleeping"}
                /\ c_sleeps = ExpectedDelays(Calls)
        /\ (/\ Calls >= 1
            /\ Calls <= max_retries
            /\ AllRateLimit(SubSeq(c_resps, 1, Calls - 1))
            /\ IsSuccess(c_resps[Calls])) =>
                /\ c_pc = "returned"
                /\ c_sleeps = ExpectedDelays(Calls - 1)
                /\ StrictlyIncreasing(c_sleeps)
                /\ c_out.kind = "result"
                /\ c_out.result.raw_transcription = c_resps[Calls].text

\* witness of C4: two rate-limit answers, then a success on the last attempt
C4_Witness ==
    /\ RealCall
    /\ c_pc = "returned"
    /\ Calls = max_retries
    /\ AllRateLimit(SubSeq(c_resps, 1, Calls - 1))
    /\ c_sleeps = <<1, 2>>

\* C5 (as claimed): an HTTP answer other than 200 and 429 is terminal at once:
\* it is the last request of the call and the call has raised.
C5_OtherErrorTerminal ==
    RealCall =>
        \A i \in DOMAIN c_resps :
            IsOtherHttp(c_resps[i]) => (i = Calls /\ c_pc = "raised")

\* C6 (as claimed): the sleep that follows a timeout on attempt a is
\* retry_delay * 2^a.
C6_TimeoutBackoffExponential ==
    RealCall =>
        \A i \in DOMAIN c_sleeps :
            IsTimeout(c_resps[i]) => c_sleeps[i] = retry_delay * Pow2(i - 1)

\* C7: when every attempt ends in a rate-limit answer or a timeout, the call
\* goes on until exactly max_retries requests were made, sleeps after every
\* attempt but the last, and then transcribe_chunk raises: it never returns a
\* TranscriptionResult.
C7_RetriesExhausted ==
    (RealCall /\ AllTransient(c_resps)) =>
        /\ Calls <= max_retries
        /\ c_pc # "returned"
        /\ c_out.kind # "result"
        /\ Calls < max_retries =>
                /\ c_pc \in {"calling", "sleeping"}
                /\ Len(c_sleeps) \in {Calls - 1, Calls}
        /\ Calls = max_retries =>
                /\ c_pc = "raised"
                /\ c_out.kind = "raised"
                /\ Len(c_sleeps) = max_retries - 1

\* witness of C7: max_retries transient failures, a timeout among them, raised
C7_Witness ==
    /\ RealCall
    /\ AllTransient(c_resps)
    /\ Calls = max_retries
    /\ \E i \in DOMAIN c_resps : IsTimeout(c_resps[i])
    /\ \E i \in DOMAIN c_resps : IsRateLimit(c_resps[i])
    /\ c_pc = "raised"

----------------------------------------------------------------------------
(* Claims about a batch (checked under Spec) *)

Tasks == DOMAIN tpc
InFlightTasks == {t \in Tasks : tpc[t] \in {"calling", "sleeping"}}
InFlight == Cardinality(InFlightTasks)
AllSettled == batch_pc \notin {"off", "idle"} /\ \A t \in Tasks : tpc[t] \in {"ok", "failed"}
FailedTasks == {t \in Tasks : tpc[t] = "failed"}
OkTasks == {t \in Tasks : tpc[t] = "ok"}

\* C1: at every moment of a batch the number of chunks whose transcribe_chunk
\* call holds the semaphore (in a request or in a backoff sleep) is at most
\* max_concurrent.
C1_BoundedInFlight ==
    batch_pc # "off" => InFlight <= max_concurrent

\* witness of C1: every slot is taken, one holder sleeps in a backoff, and a
\* further chunk waits for the semaphore
C1_Witness ==
    /\ batch_pc = "collecting"
    /\ max_concurrent >= 2
    /\ InFlight = max_concurrent
    /\ \E t \in Tasks : tpc[t] = "sleeping"
    /\ \E t \in Tasks : tpc[t] = "waiting"

\* C2: when every call succeeded and the batch returned, the returned list
\* holds exactly one result per input chunk, in strictly increasing
\* chunk_index of the chunks the results belong to.
C2_OrderedResults ==
    /\ batch_pc = "returned" =>
        /\ Len(results) = Len(chunks)
        /\ {results[i].chunk_id : i \in DOMAIN results} = Ids
        /\ \A i \in 1..(Len(results) - 1) :
                /\ SortKey(results[i], chunks) < SortKey(results[i + 1], chunks)
                /\ results[i].chunk_index < results[i + 1].chunk_index
        /\ \A i \in DOMAIN results : results[i].chunk_index = i - 1
    /\ (AllSettled /\ FailedTasks = {} /\ done_q = <<>>) => batch_pc = "returned"

\* witness of C2: a returned batch of at least three chunks that were handed
\* over out of index order, with fewer slots than chunks
C2_Witness ==
    /\ batch_pc = "returned"
    /\ Len(chunks) >= 3
    /\ max_concurrent < Len(chunks)
    /\ chunks[1].chunk_index > chunks[2].chunk_index
    /\ ~use_mock

\* C3 (as claimed): when exactly one chunk ended in terminal failure, all others
\* succeeded and the batch is over, the batch has completed rather than
\* aborted, and the result of every successful chunk is kept for the job.
C3_FailureIsolation ==
    (/\ AllSettled
     /\ Cardinality(FailedTasks) = 1
     /\ OkTasks # {}
     /\ batch_pc \in {"returned", "raised"}) =>
        /\ batch_pc = "returned"
        /\ \A t \in OkTasks : t \in DOMAIN transcriptions_storage

----------------------------------------------------------------------------
(* Claims about segmentation (checked under SpecSeg) *)

SegDone == seg_pc = "done"
SourceDuration == SourceLen(audio)
NumChunks == Len(seg_chunks)
\* the sum of floats, exact (not rounded)
RECURSIVE FloatSum(_)
FloatSum(seq) == IF seq = <<>> THEN BigZero ELSE BigAdd(Head(seq), FloatSum(Tail(seq)))

DurationSum == FloatSum([i \in DOMAIN seg_chunks |-> seg_chunks[i].duration])

\* C8: in fixed-window fallback mode on a source of duration D > 0 with target
\* T > 0, the first chunk starts at 0, each chunk starts where the previous
\* one ends, the last ends at D, every chunk but the last lasts exactly T, the
\* last lasts the remainder r with 0 < r <= T, and the durations sum to D
\* (D and T as the floats the code holds them in, the sum and the remainder
\* exact).
C8_FallbackExactCoverage ==
    (SegDone /\ seg_mode = "fallback" /\ SourceDuration > 0) =>
        /\ NumChunks >= 1
        /\ seg_chunks[1].start_time = 0
        /\ \A i \in 1..(NumChunks - 1) :
                /\ seg_chunks[i + 1].start_time = seg_chunks[i].end_time
                /\ seg_chunks[i].duration = FloatOfMs(chunk_duration)
        /\ seg_chunks[NumChunks].end_time = SourceDuration
        /\ seg_chunks[NumChunks].duration # BigZero
        /\ ~BigLess(FloatOfMs(chunk_duration), seg_chunks[NumChunks].duration)
        /\ seg_chunks[NumChunks].duration =
                BigSub(FloatOfMs(SourceDuration),
                       FloatOfMs((NumChunks - 1) * chunk_duration))
        /\ DurationSum = FloatOfMs(SourceDuration)

\* witness of C8: a 65 s source without detected silence and a 30 s target give
\* the windows [0,30), [30,60), [60,65)
C8_Witness ==
    /\ SegDone
    /\ seg_mode = "fallback"
    /\ ~detect_fails
    /\ SourceDuration = 65000
    /\ chunk_duration = 30000
    /\ NumChunks = 3
    /\ seg_chunks[2].start_time = 30000
    /\ seg_chunks[3].start_time = 60000
    /\ seg_chunks[3].end_time = 65000

\* C9 (as claimed): in both modes, each chunk of the returned list starts at or
\* after the end of the chunk before it.
C9_NoOverlap ==
    SegDone =>
        \A i \in 1..(NumChunks - 1) :
            seg_chunks[i + 1].start_time >= seg_chunks[i].end_time

\* C10 (as claimed): in both modes the k-th chunk emitted has chunk_index k
\* (0-based, no holes), end_time - start_time equals duration, and duration
\* is the length of the audio stored under the chunk's file name.
C10_IndexAndDuration ==
    SegDone =>
        \A i \in DOMAIN seg_chunks :
            /\ seg_chunks[i].chunk_index = i - 1
            /\ FloatDifference(seg_chunks[i].end_time, seg_chunks[i].start_time)
                    = seg_chunks[i].duration
            /\ seg_chunks[i].chunk_filename \in DOMAIN chunk_files
            /\ seg_chunks[i].duration =
                    FloatOfMs(ALen(chunk_files[seg_chunks[i].chunk_filename]))

\* the audio stored under the name of the i-th chunk: the source ranges of the
\* raw segments the chunk is made of
StoredAudio(i) == chunk_files[seg_chunks[i].chunk_filename]

\* C11 (as claimed): in silence mode the start_time of every chunk is the
\* position in the source where the first raw segment of the chunk begins, and
\* its end_time the position in the source where its last raw segment ends.
C11_TrueOffsets ==
    (SegDone /\ seg_mode = "silence") =>
        \A i \in DOMAIN seg_chunks :
            /\ seg_chunks[i].start_time = StoredAudio(i)[1].from
            /\ seg_chunks[i].end_time = StoredAudio(i)[Len(StoredAudio(i))].to

\* the usable raw segments of the source: what splitting on silence gives
\* after the segments shorter than min_chunk_duration were discarded
UsableSegments == FilterShort(PydubSplitOnSilence(audio, keep_silence))

\* the source ranges of a list of audio pieces, in order
RECURSIVE Flatten(_)
Flatten(pieces) == IF pieces = <<>> THEN <<>> ELSE Head(pieces) \o Flatten(Tail(pieces))

\* number of windows of length T that cover D
NumWindows(D, T) == (D + T - 1) \div T

\* C12: segmentation ends without an error for every source; it uses the
\* combiner exactly when silence analysis did not raise and gave at least two
\* usable raw segments, and the chunks are then made of exactly those segments
\* in order; in every other case (no silence found, every segment discarded, a
\* single segment, silence analysis raised) the chunks are the fixed windows
\* [k*T, min((k+1)*T, D)) of the whole source.
C12_ModeSelection ==
    SegDone =>
        /\ seg_mode \in {"silence", "fallback"}
        /\ seg_mode = "silence" <=> (~detect_fails /\ Len(UsableSegments) >= 2)
        /\ seg_mode = "silence" =>
                Flatten([i \in DOMAIN seg_chunks |-> StoredAudio(i)])
                    = Flatten(UsableSegments)
        /\ seg_mode = "fallback" =>
                /\ NumChunks = NumWindows(SourceDuration, chunk_duration)
                /\ \A i \in DOMAIN seg_chunks :
                        /\ StoredAudio(i) =
                              <<[from |-> (i - 1) * chunk_duration,
                                 to |-> Min(i * chunk_duration, SourceDuration)]>>
                        /\ seg_chunks[i].start_time = (i - 1) * chunk_duration
                        /\ seg_chunks[i].end_time = Min(i * chunk_duration, SourceDuration)

\* witness of C12: silence analysis raised on a source that has two or more
\* usable raw segments, and the source was cut into at least two fixed windows
C12_Witness ==
    /\ SegDone
    /\ detect_fails
    /\ Len(UsableSegments) >= 2
    /\ seg_mode = "fallback"
    /\ NumChunks >= 2

\* C13 (as claimed): segmentation of every source, a wholly silent one
\* included, ends with at least one chunk.
C13_AtLeastOneChunk ==
    SegDone => NumChunks >= 1

\* C14 (as claimed): a source of duration D with 0 < D < chunk_duration gives,
\* in either mode, exactly one chunk, with start_time 0 and end_time D.
C14_ShortSourceOneChunk ==
    (SegDone /\ SourceDuration > 0 /\ SourceDuration < chunk_duration) =>
        /\ NumChunks = 1
        /\ seg_chunks[1].start_time = 0
        /\ seg_chunks[1].end_time = SourceDuration

\* C15 (as claimed): every chunk emitted by the combiner lasts at most
\* chunk_duration.
C15_TargetIsUpperBound ==
    (SegDone /\ seg_mode = "silence") =>
        \A i \in DOMAIN seg_chunks :
            ~BigLess(FloatOfMs(chunk_duration), seg_chunks[i].duration)

\* the ways to cut the raw segments into as many consecutive, non-empty groups
\* as there are chunks: cuts[i] is the number of segments in the first i groups
SegmentCuts ==
    {cuts \in [0..Len(seg_chunks) -> 0..Len(seg_raw)] :
        /\ cuts[0] = 0
        /\ cuts[Len(seg_chunks)] = Len(seg_raw)
        /\ \A i \in 1..Len(seg_chunks) : cuts[i - 1] < cuts[i]}

SegmentGroup(cuts, i) == SubSeq(seg_raw, cuts[i - 1] + 1, cuts[i])

\* C26 (as claimed): the combiner partitions greedily: the raw segments of the chunks, in
\* chunk order, are the input list (nothing dropped, duplicated or reordered,
\* the last buffer emitted); the duration of a chunk is the sum of the lengths
\* of its segments; and a chunk that is not the last could not have taken the
\* first segment of the next chunk without exceeding chunk_duration.
C26_GreedyPartition ==
    (SegDone /\ seg_mode = "silence") =>
        \E cuts \in SegmentCuts :
            /\ \A i \in DOMAIN seg_chunks :
                    /\ StoredAudio(i) = Flatten(SegmentGroup(cuts, i))
                    /\ seg_chunks[i].duration =
                            FloatOfMs(SumSeq([j \in DOMAIN SegmentGroup(cuts, i) |->
                                                ALen(SegmentGroup(cuts, i)[j])]))
            /\ \A i \in 1..(Len(seg_chunks) - 1) :
                    BigLess(FloatOfMs(chunk_duration),
                            BigAdd(seg_chunks[i].duration,
                                   FloatOfMs(ALen(seg_raw[cuts[i] + 1]))))

----------------------------------------------------------------------------
(* main.py: the job stores and the request handlers                         *)
(*                                                                          *)
(* The stores are dicts, held as functions. A uuid4 is a value never handed *)
(* out before. A file name or path built with an f-string or with `/` from  *)
(* fixed-width uuids and a decimal index is held as the tuple of its parts. *)

MaxFiles == 2           \* uploads in one run of the application

OutputDir == "./audio_files"        \* AudioProcessor.output_dir of main.audio_processor
AudioFilesDir == "./audio_files"    \* audio_files_dir of transcribe_file_chunks

AppChunkCounts == {0, 2}            \* chunks the uploaded sources are cut into
Filenames == {"a.wav"}
EditedTexts == {"fixed"}

batchLocalVars == <<chunks, max_concurrent, batch_pc, sem, tpc, tattempt, tout,
                    done_q, results, completed>>
segLocalVars == <<audio, chunk_duration, detect_fails, seg_pc, seg_mode, seg_raw,
                  seg_chunks>>

None == [kind |-> "None"]

\* as DictPopAll, emptying the dict
DictClear(d, keys) == [k \in {} |-> d[k]]

\* dict.get(key), d[key] = value, d.pop(key, None) for every key of a set
DictGet(d, key) == IF key \in DOMAIN d THEN d[key] ELSE None
DictSet(d, key, value) == [k \in DOMAIN d \cup {key} |-> IF k = key THEN value ELSE d[k]]
DictPopAll(d, keys) == [k \in DOMAIN d \ keys |-> d[k]]

\* `raise HTTPException(status_code=..., detail=...)`: the exception a handler
\* raises, as the handler's outcome (the rendering of it for the client by the
\* exception handlers of main.py is not part of the model)
HttpError(status, detail) == [kind |-> "error", status |-> status, detail |-> detail]
Message(text) == [kind |-> "message", message |-> text]

\* `self.output_dir / "chunks" / chunk_filename`
ChunkPath(dir, chunk_filename) == <<dir, "chunks", chunk_filename>>

\* AudioProcessor.get_chunk_file_path
GetChunkFilePath(chunk_filename) == ChunkPath(OutputDir, chunk_filename)

\* transcribe_with_semaphore: `audio_files_dir / "chunks" / chunk.chunk_filename`
SchedulerChunkPath(chunk) == ChunkPath(AudioFilesDir, chunk.chunk_filename)

\* _save_chunk: `chunk_path = self.output_dir / "chunks" / chunk_filename`
WrittenChunkPath(chunk_filename) == ChunkPath(OutputDir, chunk_filename)

\* `chunks_storage.get(file_id, [])`
ChunksOfFile(file_id) ==
    IF file_id \in DOMAIN chunks_storage THEN chunks_storage[file_id] ELSE <<>>

AllChunkIds == UNION {{chunks_storage[f][i].id : i \in DOMAIN chunks_storage[f]} :
                        f \in DOMAIN chunks_storage}

\* ---- get_processing_status

\* `sum(1 for chunk in chunks if chunk.id in transcriptions_storage)`
CompletedTranscriptions(file_chunks, store) ==
    Cardinality({i \in DOMAIN file_chunks : file_chunks[i].id \in DOMAIN store})

\* `(completed_transcriptions / len(chunks)) * 100 if chunks else 0`, held as
\* the fraction num / den
ProgressPercentage(n_completed, total) ==
    IF total # 0 THEN [num |-> n_completed * 100, den |-> total]
    ELSE [num |-> 0, den |-> 1]

\* `progress_percentage == 0`
PctIsZero(p) == p.num = 0

\* mutant of PctBelow100: 100 itself counts as below
PctBelow100Inclusive(p) == p.num <= 100 * p.den

\* `progress_percentage < 100`
PctBelow100(p) == p.num < 100 * p.den

\* the label: if / elif / else on the percentage
CurrentStep(p, n_completed, total) ==
    IF PctIsZero(p) THEN <<"Starting transcription...">>
    ELSE IF PctBelow100(p) THEN <<"Transcribing chunks...", n_completed, total>>
    ELSE <<"Transcription complete">>

\* the ProcessingProgress the handler builds for a stored file
ProcessingProgress(file_id, file_chunks, store) ==
    LET n_completed == CompletedTranscriptions(file_chunks, store)
        p == ProgressPercentage(n_completed, Len(file_chunks))
    IN [kind |-> "progress",
        file_id |-> file_id,
        current_step |-> CurrentStep(p, n_completed, Len(file_chunks)),
        progress_percentage |-> p,
        chunks_processed |-> n_completed,
        total_chunks |-> Len(file_chunks)]

GetProcessingStatus(file_id) ==
    /\ resp' = IF file_id \notin DOMAIN file_storage
               THEN HttpError(404, "File not found")
               ELSE ProcessingProgress(file_id, ChunksOfFile(file_id),
                                       transcriptions_storage)
    /\ UNCHANGED <<file_storage, chunks_storage, transcriptions_storage,
                   validations_storage, processed_files, chunk_files, jobs,
                   error_log, batchLocalVars, segLocalVars, callVars>>

\* ---- get_project_summary

ChunkWithTranscription(chunk, store, vstore) ==
    [chunk |-> chunk,
     transcription |-> DictGet(store, chunk.id),
     validation |-> DictGet(vstore, chunk.id),
     audio_url |-> <<"/api/chunks", chunk.id, "audio">>]

ProjectSummary(file_info, file_chunks, store, vstore) ==
    [kind |-> "summary",
     file_info |-> file_info,
     total_chunks |-> Len(file_chunks),
     completed_transcriptions |->
        Cardinality({i \in DOMAIN file_chunks : DictGet(store, file_chunks[i].id) # None}),
     validated_chunks |->
        Cardinality({i \in DOMAIN file_chunks : DictGet(vstore, file_chunks[i].id) # None}),
     chunks |-> [i \in DOMAIN file_chunks |->
                    ChunkWithTranscription(file_chunks[i], store, vstore)]]

GetProjectSummary(file_id) ==
    /\ resp' = IF file_id \notin DOMAIN file_storage
               THEN HttpError(404, "File not found")
               ELSE ProjectSummary(file_storage[file_id], ChunksOfFile(file_id),
                                   transcriptions_storage, validations_storage)
    /\ UNCHANGED <<file_storage, chunks_storage, transcriptions_storage,
                   validations_storage, processed_files, chunk_files, jobs,
                   error_log, batchLocalVars, segLocalVars, callVars>>

\* ---- validate_transcription

ChunkExists(chunk_id) == chunk_id \in AllChunkIds

\* mutant of ValidateTranscription: the edit is also written into the stored
\* transcription
ValidateTranscriptionOverwrites(chunk_id, validation) ==
    /\ IF ~ChunkExists(chunk_id)
       THEN /\ resp' = HttpError(404, "Chunk not found")
            /\ UNCHANGED <<validations_storage, transcriptions_storage>>
       ELSE /\ validations_storage' =
                    DictSet(validations_storage, chunk_id,
                            [validation EXCEPT !.chunk_id = chunk_id])
            /\ transcriptions_storage' =
                    [id \in DOMAIN transcriptions_storage |->
                        IF id = chunk_id
                        THEN [transcriptions_storage[id] EXCEPT
                                !.raw_transcription = validation.edited_text]
                        ELSE transcriptions_storage[id]]
            /\ resp' = Message("Validation saved successfully")
    /\ UNCHANGED <<file_storage, chunks_storage,
                   processed_files, chunk_files, jobs,
                   error_log, batchLocalVars, segLocalVars, callVars>>

\* as ValidateTranscription, with the body stored as it came
ValidateTranscriptionKeepsBody(chunk_id, validation) ==
    /\ IF ~ChunkExists(chunk_id)
       THEN /\ resp' = HttpError(404, "Chunk not found")
            /\ UNCHANGED validations_storage
       ELSE /\ validations_storage' = DictSet(validations_storage, chunk_id, validation)
            /\ resp' = Message("Validation saved successfully")
    /\ UNCHANGED <<file_storage, chunks_storage, transcriptions_storage,
                   processed_files, chunk_files, jobs,
                   error_log, batchLocalVars, segLocalVars, callVars>>

ValidateTranscription(chunk_id, validation) ==
    /\ IF ~ChunkExists(chunk_id)
       THEN /\ resp' = HttpError(404, "Chunk not found")
            /\ UNCHANGED validations_storage
       ELSE /\ validations_storage' =
                    DictSet(validations_storage, chunk_id,
                            [validation EXCEPT !.chunk_id = chunk_id])
            /\ resp' = Message("Validation saved successfully")
    /\ UNCHANGED <<file_storage, chunks_storage, transcriptions_storage,
                   processed_files, chunk_files, jobs,
                   error_log, batchLocalVars, segLocalVars, callVars>>

\* ---- upload_audio_file

max_size == 52428800    \* main.py:101 `max_size = 50 * 1024 * 1024` (bytes)

\* uuid4 of _analyze_audio_file: the next file id never handed out before
UsedFileIds == DOMAIN jobs \cup {name[1] : name \in processed_files}
NewFileId == <<"file-uuid", Cardinality(UsedFileIds)>>

\* uuid4 of _save_chunk for chunk k of a file
AppChunkId(file_id, k) == <<"uuid", file_id[2], k>>

\* `processed_filename = f"{file_id}_{filename}"`
ProcessedFilename(file_id, filename) == <<file_id, filename>>

\* the chunks of a source without silence that is n windows long
UploadedChunks(file_id, n) ==
    [i \in 1..n |->
        SaveChunk(<<[from |-> (i - 1) * DefaultChunkDuration,
                     to |-> i * DefaultChunkDuration]>>,
                  file_id, i - 1,
                  (i - 1) * DefaultChunkDuration, i * DefaultChunkDuration,
                  AppChunkId(file_id, i - 1))]

\* Optional[int]: None is the empty sequence, a value the sequence of it
Unset == <<>>
Some(v) == <<v>>
Optional(S) == {Unset} \cup {Some(v) : v \in S}

\* the AudioFileModel _analyze_audio_file returns (total_chunks is left at
\* its default None)
AnalyzedAudioInfo(file_id, filename, duration) ==
    [id |-> file_id,
     filename |-> ProcessedFilename(file_id, filename),
     original_filename |-> filename,
     duration |-> duration,
     processing_status |-> "processing",
     total_chunks |-> Unset]

\* mutant of CompleteProcessing: the chunk count is not recorded
CompleteProcessingNoCount(audio_info, new_chunks) ==
    [audio_info EXCEPT !.processing_status = "completed"]

\* process_audio_file: `audio_info.total_chunks = len(chunks)` and
\* `audio_info.processing_status = ProcessingStatus.COMPLETED`
CompleteProcessing(audio_info, new_chunks) ==
    [audio_info EXCEPT !.total_chunks = Some(Len(new_chunks)),
                       !.processing_status = "completed"]

\* the AudioFileModel process_audio_file returns for a source of n windows
AudioFileModel(file_id, filename, n) ==
    CompleteProcessing(AnalyzedAudioInfo(file_id, filename, n * DefaultChunkDuration),
                       [i \in 1..n |-> i])

\* the directory after the first k of the saved chunks were written
WriteChunks(files, saved, k) ==
    [name \in DOMAIN files \cup {saved[i].chunk.chunk_filename : i \in 1..k} |->
        IF name \in DOMAIN files THEN files[name]
        ELSE saved[CHOOSE i \in 1..k : saved[i].chunk.chunk_filename = name].stored]

\* the first k elements of a sequence
Prefix(seq, k) == [i \in 1..k |-> seq[i]]

\* how much audio (ms) a failing export wrote into the file it had opened
\* before the write raised
WrittenLens == {0, 239}

\* the first `written` ms of an AudioSegment: what an export that raised while
\* writing leaves in its file
RECURSIVE AudioPrefix(_, _)
AudioPrefix(seg, written) ==
    IF seg = <<>> \/ written = 0 THEN <<>>
    ELSE LET len == Head(seg).to - Head(seg).from IN
         IF written < len
         THEN <<[from |-> Head(seg).from, to |-> Head(seg).from + written]>>
         ELSE <<Head(seg)>> \o AudioPrefix(Tail(seg), written - len)

\* the file the export of a saved chunk leaves when it raises: none when it
\* had not opened its target (written is None), else the name with the audio
\* written so far
UnfinishedExport(saved_chunk, written) ==
    IF written = Unset THEN {}
    ELSE {<<saved_chunk.chunk.chunk_filename, AudioPrefix(saved_chunk.stored, written[1])>>}

\* the directory after an export that failed left its file unfinished
LeaveUnfinished(files, parts) ==
    [name \in DOMAIN files \cup {part[1] : part \in parts} |->
        IF name \in DOMAIN files THEN files[name]
        ELSE (CHOOSE part \in parts : part[1] = name)[2]]

\* as ProcessAudioFile, with a failure logged and what was made returned
ProcessAudioFileSwallowsFailure(file_id, filename, n, failure, k, written) ==
    LET saved == UploadedChunks(file_id, n)
        kept == IF failure = "chunks" THEN Prefix(saved, k) ELSE saved
        made == [i \in DOMAIN kept |-> kept[i].chunk]
        audio_info == AnalyzedAudioInfo(file_id, filename, n * DefaultChunkDuration)
    IN [kind |-> "returned", processed |-> {audio_info.filename}, saved |-> kept,
        unfinished |-> IF failure = "chunks" /\ written # Unset
                       THEN UnfinishedExport(saved[k + 1], written) ELSE {},
        audio_info |-> CompleteProcessing(audio_info, made), chunks |-> made]

\* process_audio_file on a source that is cut into n chunks. failure names the
\* step that raises: none, "analyze" (the decode or the export of
\* _analyze_audio_file), or "chunks" (_create_intelligent_chunks, after k
\* chunks were written: the second decode, or the export of chunk k + 1).
\* written tells how much the export that raised had written into its target,
\* which then stays in the directory unfinished; it is None when the target
\* was not opened (a decode opens none)
ProcessAudioFile(file_id, filename, n, failure, k, written) ==
    LET saved == UploadedChunks(file_id, n)
        new_chunks == [i \in DOMAIN saved |-> saved[i].chunk]
        audio_info == AnalyzedAudioInfo(file_id, filename, n * DefaultChunkDuration)
    IN CASE failure = "analyze" ->
                [kind |-> "raised", error |-> failure,
                 processed |-> IF written # Unset THEN {audio_info.filename} ELSE {},
                 saved |-> <<>>, unfinished |-> {}]
         [] failure = "chunks" ->
                [kind |-> "raised", error |-> failure,
                 processed |-> {audio_info.filename}, saved |-> Prefix(saved, k),
                 unfinished |-> IF written = Unset THEN {}
                                ELSE UnfinishedExport(saved[k + 1], written)]
         [] OTHER ->
                [kind |-> "returned", processed |-> {audio_info.filename},
                 saved |-> saved, unfinished |-> {},
                 audio_info |-> CompleteProcessing(audio_info, new_chunks),
                 chunks |-> new_chunks]

\* the ways process_audio_file can end on a source of n chunks: the step that
\* raises, the number of chunks written before, and how much the export that
\* raised had written into its target (None: it had not opened it)
UploadFailures(n) ==
    {<<"none", 0, Unset>>, <<"chunks", 0, Unset>>}
        \cup {<<"analyze", 0, written>> : written \in Optional(WrittenLens)}
        \cup {<<"chunks", k, written>> :
                    k \in 0..(n - 1), written \in Optional(WrittenLens)}

\* POST /api/upload of a source that is cut into n chunks; when the source is
\* processed the background transcription of the chunks is scheduled
UploadAudioFile(n, filename, is_audio, size, failure, k, written) ==
    IF ~is_audio
    THEN /\ failure = "none"
         /\ k = 0
         /\ written = Unset
         /\ resp' = HttpError(400, "File must be an audio file")
         /\ UNCHANGED <<file_storage, chunks_storage, transcriptions_storage,
                        validations_storage, processed_files, chunk_files, jobs,
                        error_log, batchLocalVars, segLocalVars, callVars>>
    ELSE IF size > max_size
    THEN /\ failure = "none"
         /\ k = 0
         /\ written = Unset
         /\ resp' = HttpError(400, "File too large. Maximum size is 50MB")
         /\ UNCHANGED <<file_storage, chunks_storage, transcriptions_storage,
                        validations_storage, processed_files, chunk_files, jobs,
                        error_log, batchLocalVars, segLocalVars, callVars>>
    ELSE /\ Cardinality(UsedFileIds) < MaxFiles
         /\ LET file_id == NewFileId
                outcome == ProcessAudioFile(file_id, filename, n, failure, k, written)
            IN
             /\ \A part \in outcome.unfinished : ALen(part[2]) = written[1]
             /\ processed_files' = processed_files \cup outcome.processed
             /\ chunk_files' =
                    LeaveUnfinished(WriteChunks(chunk_files, outcome.saved,
                                                Len(outcome.saved)),
                                    outcome.unfinished)
             /\ IF outcome.kind = "raised"
                THEN /\ resp' = HttpError(500, <<"Internal server error: ", outcome.error>>)
                     /\ UNCHANGED <<file_storage, chunks_storage, jobs>>
                ELSE /\ file_storage' = DictSet(file_storage, file_id, outcome.audio_info)
                     /\ chunks_storage' = DictSet(chunks_storage, file_id, outcome.chunks)
                     /\ jobs' = DictSet(jobs, file_id,
                                        [pc |-> "running", chunks |-> outcome.chunks])
                     /\ resp' = [kind |-> "upload", file_id |-> file_id,
                                 file_info |-> outcome.audio_info]
         /\ UNCHANGED <<transcriptions_storage, validations_storage,
                        error_log, batchLocalVars, segLocalVars, callVars>>

\* ---- transcribe_file_chunks, as one job of the application: the batch of
\* the job's chunks (Spec) ends by returning one result per chunk, which are
\* stored in one go, or by raising, which is logged

JobResults(job_chunks) ==
    [i \in DOMAIN job_chunks |->
        TranscriptionResult(job_chunks[i],
                            IF use_mock THEN MockText(job_chunks[i]) ELSE "hello",
                            use_mock)]

TranscriptionReturns(file_id) ==
    /\ file_id \in DOMAIN jobs
    /\ jobs[file_id].pc = "running"
    /\ transcriptions_storage' =
            StoreResults(transcriptions_storage, JobResults(jobs[file_id].chunks))
    /\ jobs' = [jobs EXCEPT ![file_id].pc = "returned"]
    /\ UNCHANGED <<file_storage, chunks_storage, validations_storage,
                   processed_files, chunk_files, resp,
                   error_log, batchLocalVars, segLocalVars, callVars>>

TranscriptionRaises(file_id) ==
    /\ file_id \in DOMAIN jobs
    /\ jobs[file_id].pc = "running"
    /\ jobs[file_id].chunks # <<>>
    /\ ~use_mock
    /\ jobs' = [jobs EXCEPT ![file_id].pc = "raised"]
    /\ error_log' = Append(error_log, "Error in background transcription")
    /\ UNCHANGED <<file_storage, chunks_storage, transcriptions_storage,
                   validations_storage, processed_files, chunk_files, resp,
                   batchLocalVars, segLocalVars, callVars>>

\* ---- delete_file

\* str(uuid.uuid4()) of a file: a string of fixed width without "_", held as
\* the sequence of its characters
Digit(d) == <<"0", "1", "2", "3", "4", "5", "6", "7", "8", "9">>[d + 1]
FileIdStr(file_id) == <<"f", Digit(file_id[2] \div 10), Digit(file_id[2] % 10)>>

\* the characters of `chunk_{file_id}_{chunk_index:03d}_{chunk_id}.wav` and of
\* `{file_id}_{filename}`; what follows the file id and "_" is kept in parts
ChunkFilenameStr(name) ==
    <<"chunk_">> \o FileIdStr(name[2]) \o <<"_", name[3], "_", name[4], ".wav">>
ProcessedFilenameStr(name) == FileIdStr(name[1]) \o <<"_", name[2]>>

\* mutant of ChunkPattern: the pattern is `chunk_*`
ChunkPatternAnyFile(file_id) == <<"chunk_">>

\* `chunk_pattern = f"chunk_{file_id}_*"` and `f"{file_id}_*"`, without the "*"
ChunkPattern(file_id) == <<"chunk_">> \o FileIdStr(file_id) \o <<"_">>
ProcessedPattern(file_id) == FileIdStr(file_id) \o <<"_">>

\* Path.glob of a pattern that ends in "*": the names that begin with the
\* text before the "*"
GlobMatches(prefix, str) ==
    /\ Len(str) >= Len(prefix)
    /\ \A i \in 1..Len(prefix) : str[i] = prefix[i]

\* cleanup_temp_files: unlink of the names matched by `chunk_{file_id}_*` in
\* output_dir/chunks and by `{file_id}_*` in output_dir
CleanupChunkFiles(files, file_id) ==
    [name \in {nm \in DOMAIN files :
                    ~GlobMatches(ChunkPattern(file_id), ChunkFilenameStr(nm))} |->
        files[name]]
CleanupProcessedFiles(names, file_id) ==
    {nm \in names : ~GlobMatches(ProcessedPattern(file_id), ProcessedFilenameStr(nm))}

\* as DeleteFile, with the file's chunk list left in chunks_storage
DeleteFileKeepsChunkList(file_id) ==
    IF file_id \notin DOMAIN file_storage
    THEN /\ resp' = HttpError(404, "File not found")
         /\ UNCHANGED <<file_storage, chunks_storage, transcriptions_storage,
                        validations_storage, processed_files, chunk_files, jobs,
                        error_log, batchLocalVars, segLocalVars, callVars>>
    ELSE LET ids == {ChunksOfFile(file_id)[i].id : i \in DOMAIN ChunksOfFile(file_id)} IN
         /\ transcriptions_storage' = DictPopAll(transcriptions_storage, ids)
         /\ validations_storage' = DictPopAll(validations_storage, ids)
         /\ file_storage' = DictPopAll(file_storage, {file_id})
         /\ chunk_files' = CleanupChunkFiles(chunk_files, file_id)
         /\ processed_files' = CleanupProcessedFiles(processed_files, file_id)
         /\ resp' = Message("File deleted successfully")
         /\ UNCHANGED <<chunks_storage, jobs, error_log, batchLocalVars, segLocalVars,
                        callVars>>

DeleteFile(file_id) ==
    IF file_id \notin DOMAIN file_storage
    THEN /\ resp' = HttpError(404, "File not found")
         /\ UNCHANGED <<file_storage, chunks_storage, transcriptions_storage,
                        validations_storage, processed_files, chunk_files, jobs,
                        error_log, batchLocalVars, segLocalVars, callVars>>
    ELSE LET ids == {ChunksOfFile(file_id)[i].id : i \in DOMAIN ChunksOfFile(file_id)} IN
         /\ transcriptions_storage' = DictPopAll(transcriptions_storage, ids)
         /\ validations_storage' = DictPopAll(validations_storage, ids)
         /\ chunks_storage' = DictPopAll(chunks_storage, {file_id})
         /\ file_storage' = DictPopAll(file_storage, {file_id})
         /\ chunk_files' = CleanupChunkFiles(chunk_files, file_id)
         /\ processed_files' = CleanupProcessedFiles(processed_files, file_id)
         /\ resp' = Message("File deleted successfully")
         /\ UNCHANGED <<jobs, error_log, batchLocalVars, segLocalVars, callVars>>

\* ---- SpecApp: the application from its start, with empty stores

RequestFileIds == {<<"file-uuid", k>> : k \in 0..(MaxFiles - 1)}
\* UploadFile.size of an upload: at the limit and one byte above it
UploadSizes == {max_size, max_size + 1}
RequestChunkIds == {AppChunkId(f, k) : f \in RequestFileIds, k \in {0, 1}}
ValidationEdits ==
    {[chunk_id |-> b, edited_text |-> t, user_confidence |-> 5] :
        b \in {AppChunkId(<<"file-uuid", 0>>, 0)}, t \in EditedTexts}

AppInit ==
    /\ use_mock \in BOOLEAN
    /\ file_storage = <<>>
    /\ chunks_storage = <<>>
    /\ validations_storage = <<>>
    /\ processed_files = {}
    /\ jobs = <<>>
    /\ resp = NoResp
    /\ CallOff
    /\ BatchOff
    /\ SegOff

AppNext ==
    \/ \E n \in AppChunkCounts, fn \in Filenames, is_audio \in BOOLEAN, size \in UploadSizes :
        \E fk \in UploadFailures(n) :
            UploadAudioFile(n, fn, is_audio, size, fk[1], fk[2], fk[3])
    \/ \E f \in RequestFileIds : TranscriptionReturns(f)
    \/ \E f \in RequestFileIds : TranscriptionRaises(f)
    \/ \E f \in RequestFileIds : GetProcessingStatus(f)
    \/ \E f \in RequestFileIds : GetProjectSummary(f)
    \/ \E c \in RequestChunkIds, v \in ValidationEdits : ValidateTranscription(c, v)
    \/ \E f \in RequestFileIds : DeleteFile(f)

SpecApp == AppInit /\ [][AppNext]_vars

\* ---- SpecStatus: get_processing_status applied to every content of the
\* stores over the chunks of one stored file

StatusFileId == <<"file-uuid", 0>>
StatusRequestIds == {StatusFileId, <<"file-uuid", 1>>}

\* the result stored for a chunk
StoredResult(chunk) == TranscriptionResult(chunk, "hello", FALSE)

StatusInit ==
    /\ use_mock = FALSE
    /\ \E n \in 0..MaxChunks :
        LET saved == UploadedChunks(StatusFileId, n)
            file_chunks == [i \in DOMAIN saved |-> saved[i].chunk]
            ids == {file_chunks[i].id : i \in DOMAIN file_chunks}
            chunk_of == [id \in ids |->
                            file_chunks[CHOOSE i \in DOMAIN file_chunks :
                                            file_chunks[i].id = id]]
        IN
         /\ file_storage = DictSet(<<>>, StatusFileId, AudioFileModel(StatusFileId, "a.wav", n))
         /\ chunks_storage = DictSet(<<>>, StatusFileId, file_chunks)
         /\ \E done \in SUBSET ids :
                transcriptions_storage = [id \in done |-> StoredResult(chunk_of[id])]
         /\ \E edited \in SUBSET ids :
                validations_storage =
                    [id \in edited |->
                        [chunk_id |-> id, edited_text |-> "fixed", user_confidence |-> 5]]
    /\ processed_files = {}
    /\ jobs = <<>>
    /\ resp = NoResp
    /\ CallOff
    /\ chunks = <<>>
    /\ max_concurrent = 0
    /\ batch_pc = "off"
    /\ sem = 0
    /\ tpc = <<>>
    /\ tattempt = <<>>
    /\ tout = <<>>
    /\ done_q = <<>>
    /\ results = <<>>
    /\ completed = 0
    /\ error_log = <<>>
    /\ SegOff

StatusNext == \E f \in StatusRequestIds : GetProcessingStatus(f)

SpecStatus == StatusInit /\ [][StatusNext]_vars

----------------------------------------------------------------------------
(* Claims about the progress report (checked under SpecStatus) *)

Starting == <<"Starting transcription...">>
InProgress(c, t) == <<"Transcribing chunks...", c, t>>
Complete == <<"Transcription complete">>

\* C16: the label get_processing_status answers with is a function of the
\* counts it reports: "starting" exactly when completed is 0 (the percentage
\* is 0, also when total is 0), "in progress (completed/total)" exactly when
\* 0 < completed < total, "complete" exactly when completed = total > 0; the
\* reported counts are those of the stores, and the handler changes none of
\* the stores.
C16_LabelIsFunctionOfCounts ==
    /\ [](resp.kind = "progress" =>
            LET c == resp.chunks_processed
                t == resp.total_chunks
            IN  /\ t = Len(ChunksOfFile(resp.file_id))
                /\ c = CompletedTranscriptions(ChunksOfFile(resp.file_id),
                                               transcriptions_storage)
                /\ resp.current_step \in {Starting, InProgress(c, t), Complete}
                /\ resp.current_step = Starting <=> c = 0
                /\ resp.current_step = InProgress(c, t) <=> (0 < c /\ c < t)
                /\ resp.current_step = Complete <=> (c = t /\ t > 0))
    /\ [][(\E f \in StatusRequestIds : GetProcessingStatus(f)) =>
            UNCHANGED <<file_storage, chunks_storage, transcriptions_storage,
                        validations_storage>>]_vars

\* witness of C16: the handler answered "in progress (2/3)"
C16_Witness ==
    /\ resp.kind = "progress"
    /\ resp.chunks_processed = 2
    /\ resp.total_chunks = 3
    /\ resp.current_step = InProgress(2, 3)
    /\ validations_storage # <<>>

----------------------------------------------------------------------------
(* Claims about the job's progress and summary during and after a batch     *)
(* (checked under Spec; the chunks of the batch are the stored chunks of    *)
(* the file, main.py 116-119)                                               *)

\* what get_processing_status reports as chunks_processed for the file of the
\* batch, were it asked now
ReportedCompleted ==
    ProcessingProgress(FileId, chunks, transcriptions_storage).chunks_processed

\* C17 (as claimed): while a batch of N >= 2 chunks is collected, the completed
\* count reported for the file equals the number of results that have arrived
\* so far.
C17_CountFollowsCompletions ==
    (batch_pc = "collecting" /\ Len(chunks) >= 2) => ReportedCompleted = completed

\* what get_project_summary lists for the chunk with this id of the batch's
\* file, were it asked now
SummaryEntry(id) ==
    LET summary == ProjectSummary(AudioFileModel(FileId, "a.wav", Len(chunks)), chunks,
                                  transcriptions_storage, validations_storage)
    IN summary.chunks[CHOOSE i \in DOMAIN chunks : chunks[i].id = id]

\* what the summary lists for a chunk whose transcription is still pending
PendingEntry(chunk) == ChunkWithTranscription(chunk, <<>>, validations_storage)

\* C18 (as claimed): once every call of the batch has settled, at least one
\* of them in terminal failure, and the batch is over, the summary lists every
\* succeeded chunk with its transcription and lists every failed chunk
\* differently from a pending chunk.
C18_SummaryTellsFailure ==
    (AllSettled /\ FailedTasks # {} /\ batch_pc \in {"returned", "raised"}) =>
        /\ \A t \in OkTasks : SummaryEntry(t).transcription = tout[t].result
        /\ \A t \in FailedTasks : SummaryEntry(t) # PendingEntry(ChunkOf(t))

----------------------------------------------------------------------------
(* Claims about the stores of the running application (checked under SpecApp) *)

\* C19: every stored transcription is the one result of the chunk it is keyed
\* by; a validate_transcription request, before or after the transcription of
\* its chunk arrived, leaves transcriptions_storage unchanged; and no step
\* replaces the value stored for a chunk: it stays as it is until delete_file
\* removes it.
C19_ResultNeverMutated ==
    /\ [](\A id \in DOMAIN transcriptions_storage :
                transcriptions_storage[id].chunk_id = id)
    /\ [][/\ (\E c \in RequestChunkIds, v \in ValidationEdits :
                    ValidateTranscription(c, v))
                => UNCHANGED transcriptions_storage
          /\ \A id \in DOMAIN transcriptions_storage :
                id \in DOMAIN transcriptions_storage' =>
                    transcriptions_storage'[id] = transcriptions_storage[id]]_vars

\* witness of C19: a validation was just saved for a chunk whose transcription
\* is stored, with a text other than the transcription, and another chunk was
\* validated while its transcription is still to arrive
C19_Witness ==
    /\ ~use_mock
    /\ resp = Message("Validation saved successfully")
    /\ \E id \in DOMAIN validations_storage :
            /\ id \in DOMAIN transcriptions_storage
            /\ validations_storage[id].edited_text
                    # transcriptions_storage[id].raw_transcription
    /\ \E id \in DOMAIN validations_storage :
            /\ id \notin DOMAIN transcriptions_storage
            /\ \E f \in DOMAIN jobs : jobs[f].pc = "running"

\* the chunks the stores and the running jobs hold
StoredChunks ==
    UNION {{chunks_storage[f][i] : i \in DOMAIN chunks_storage[f]} :
                f \in DOMAIN chunks_storage}
JobChunks(f) == {jobs[f].chunks[i] : i \in DOMAIN jobs[f].chunks}

\* C20: the name a chunk is persisted under holds the id of its source, its
\* index and its own id; no two chunks, of one source or of two, share a name;
\* and for every stored chunk the path of get_chunk_file_path and the path
\* the scheduler builds are the path the chunk was written to, where its
\* audio is found as long as the file is stored.
C20_ChunkNamesResolve ==
    /\ \A c \in StoredChunks :
        /\ c.chunk_filename = ChunkFilename(c.file_id, c.chunk_index, c.id)
        /\ c.chunk_filename[2] = c.file_id
        /\ c.chunk_filename[3] = c.chunk_index
        /\ c.chunk_filename[4] = c.id
        /\ c.file_id \in DOMAIN chunks_storage
        /\ c.chunk_filename \in DOMAIN chunk_files
        /\ FloatOfMs(ALen(chunk_files[c.chunk_filename])) = c.duration
        /\ GetChunkFilePath(c.chunk_filename) = WrittenChunkPath(c.chunk_filename)
        /\ SchedulerChunkPath(c) = WrittenChunkPath(c.chunk_filename)
    /\ \A c, d \in StoredChunks \cup UNION {JobChunks(f) : f \in DOMAIN jobs} :
        c.chunk_filename = d.chunk_filename => c = d
    /\ \A f \in DOMAIN jobs : \A c \in JobChunks(f) :
        SchedulerChunkPath(c) = WrittenChunkPath(c.chunk_filename)

\* witness of C20: two sources of two chunks each are stored, their four
\* chunks are on disk, and a batch is running
C20_Witness ==
    /\ Cardinality(StoredChunks) = 4
    /\ Cardinality(DOMAIN chunk_files) = 4
    /\ Cardinality(DOMAIN chunks_storage) = 2
    /\ \E f \in DOMAIN jobs : jobs[f].pc = "running"

----------------------------------------------------------------------------
(* SpecCleanup: AudioProcessor.cleanup_temp_files applied to every content  *)
(* of the output directory over the files of MaxFiles sources               *)

CleanupFileIds == {<<"file-uuid", k>> : k \in 0..(MaxFiles - 1)}
\* an id nothing was ever stored for
AbsentFileId == <<"file-uuid", 10>>
CleanupRequestIds == CleanupFileIds \cup {AbsentFileId}

\* the chunk files of a source that was cut into n chunks
ChunkFilesOf(file_id, n) ==
    LET saved == UploadedChunks(file_id, n)
    IN {<<saved[i].chunk.chunk_filename, saved[i].stored>> : i \in DOMAIN saved}

CleanupInit ==
    /\ \E n \in [CleanupFileIds -> 0..MaxChunks] :
        LET on_disk == UNION {ChunkFilesOf(f, n[f]) : f \in CleanupFileIds}
        IN chunk_files = [name \in {e[1] : e \in on_disk} |->
                            (CHOOSE e \in on_disk : e[1] = name)[2]]
    /\ \E with_source \in SUBSET CleanupFileIds :
        processed_files = {ProcessedFilename(f, "a.wav") : f \in with_source}
    /\ resp = NoResp
    /\ file_storage = <<>>
    /\ chunks_storage = <<>>
    /\ validations_storage = <<>>
    /\ jobs = <<>>
    /\ use_mock = FALSE
    /\ CallOff
    /\ BatchOff
    /\ audio = <<>>
    /\ chunk_duration = DefaultChunkDuration
    /\ detect_fails = FALSE
    /\ seg_pc = "off"
    /\ seg_mode = "none"
    /\ seg_raw = <<>>
    /\ seg_chunks = <<>>

\* cleanup_temp_files(file_id): returns None; resp keeps which names were
\* unlinked
CleanupTempFiles(file_id) ==
    /\ chunk_files' = CleanupChunkFiles(chunk_files, file_id)
    /\ processed_files' = CleanupProcessedFiles(processed_files, file_id)
    /\ resp' = [kind |-> "cleaned", file_id |-> file_id,
                unlinked |-> (DOMAIN chunk_files \ DOMAIN chunk_files')
                                \cup (processed_files \ processed_files')]
    /\ UNCHANGED <<file_storage, chunks_storage, transcriptions_storage,
                   validations_storage, jobs, error_log, batchLocalVars,
                   segLocalVars, callVars>>

CleanupNext == \E f \in CleanupRequestIds : CleanupTempFiles(f)

SpecCleanup == CleanupInit /\ [][CleanupNext]_vars

----------------------------------------------------------------------------
(* Claims about the chunk store (checked under SpecCleanup) *)

ChunkFilesOfId(files, f) == {nm \in DOMAIN files : nm[2] = f}
ProcessedOfId(names, f) == {nm \in names : nm[1] = f}

\* C21: cleanup_temp_files(f) ends without an error; afterwards no chunk file
\* and no processed source of f is left, every file of another id is still
\* there with its content, nothing new appears, and when nothing of f
\* existed the directory is as before.
C21_CleanupRemovesOwnFilesOnly ==
    [][\A f \in CleanupRequestIds : CleanupTempFiles(f) =>
        /\ resp'.kind = "cleaned"
        /\ ChunkFilesOfId(chunk_files', f) = {}
        /\ ProcessedOfId(processed_files', f) = {}
        /\ \A nm \in DOMAIN chunk_files :
                nm[2] # f => (nm \in DOMAIN chunk_files' /\ chunk_files'[nm] = chunk_files[nm])
        /\ \A nm \in processed_files : nm[1] # f => nm \in processed_files'
        /\ DOMAIN chunk_files' \subseteq DOMAIN chunk_files
        /\ processed_files' \subseteq processed_files
        /\ (ChunkFilesOfId(chunk_files, f) = {} /\ ProcessedOfId(processed_files, f) = {})
              => UNCHANGED <<chunk_files, processed_files>>]_vars

\* witness of C21: a cleanup unlinked the chunk files and the processed source
\* of one id while chunk files and the processed source of another id stay
C21_Witness ==
    /\ resp.kind = "cleaned"
    /\ Cardinality(resp.unlinked) >= 3
    /\ ChunkFilesOfId(chunk_files, resp.file_id) = {}
    /\ Cardinality(DOMAIN chunk_files) >= 2
    /\ processed_files # {}

\* C25: when the decode or a chunk write fails inside process_audio_file, the
\* upload answers with an error (500), file_storage and chunks_storage gain no
\* entry and no background transcription is started.
C25_FailedUploadStoresNothing ==
    [][\A n \in AppChunkCounts, fn \in Filenames, size \in UploadSizes :
        \A fk \in UploadFailures(n) :
            (fk[1] # "none" /\ UploadAudioFile(n, fn, TRUE, size, fk[1], fk[2], fk[3])) =>
                /\ resp'.kind = "error"
                /\ resp'.status = 500
                /\ file_storage' = file_storage
                /\ chunks_storage' = chunks_storage
                /\ jobs' = jobs
                /\ transcriptions_storage' = transcriptions_storage]_vars

\* a failed upload after an accepted one: the export of the second chunk
\* raised while writing, the first chunk file and the partly written second
\* one of the failed source are on disk, and the source is in no store and has no job
C25_Witness ==
    /\ resp.kind = "error"
    /\ resp.status = 500
    /\ file_storage # <<>>
    /\ \E name, other \in DOMAIN chunk_files :
            /\ name[2] = other[2]
            /\ ALen(chunk_files[name]) = DefaultChunkDuration
            /\ ALen(chunk_files[other]) = 239
            /\ name[2] \notin DOMAIN jobs
            /\ name[2] \notin DOMAIN file_storage
            /\ name[2] \notin DOMAIN chunks_storage

----------------------------------------------------------------------------
(* SpecProcess: AudioProcessor.process_audio_file, called twice on the      *)
(* same source. A decode and a write can fail. resp holds the local      *)
(* audio_info of the running call and what the earlier calls returned.       *)

MaxProcessSpans == 3    \* spans of the sources of SpecProcess

ProcessAudios == {a \in Audios : Len(a) <= MaxProcessSpans}

\* uuid4 of the call that is running
RunFileId == <<"file-uuid", resp.calls - 1>>

\* the uuid4 _save_chunk draws in the running call for its i-th chunk, and the
\* file name made of it
Reissue(saved_chunk, i) ==
    LET chunk_id == AppChunkId(RunFileId, i - 1) IN
    [saved_chunk EXCEPT
        !.chunk.id = chunk_id,
        !.chunk.chunk_filename = ChunkFilename(RunFileId, saved_chunk.chunk.chunk_index,
                                               chunk_id)]

\* what the running call saves: the chunks of the source, under the file id
\* of the call and with chunk ids of their own
RunChunks ==
    LET saved == IntelligentChunks(audio, chunk_duration, detect_fails, RunFileId)
    IN [i \in DOMAIN saved |-> Reissue(saved[i], i)]

procFrame == <<audio, chunk_duration, detect_fails, file_storage, chunks_storage,
               validations_storage, jobs, callVars, batchVars>>

ProcInit ==
    /\ audio \in ProcessAudios
    /\ chunk_duration \in {s * 1000 : s \in TargetSeconds}
    /\ detect_fails \in BOOLEAN
    /\ seg_pc = "new"
    /\ seg_mode = "none"
    /\ seg_raw = <<>>
    /\ seg_chunks = <<>>
    /\ chunk_files = <<>>
    /\ processed_files = {}
    /\ resp = [kind |-> "process", calls |-> 1, audio_info |-> None,
               returned |-> <<>>, raised |-> <<>>]
    /\ file_storage = <<>>
    /\ chunks_storage = <<>>
    /\ validations_storage = <<>>
    /\ jobs = <<>>
    /\ use_mock = FALSE
    /\ CallOff
    /\ BatchOff

\* _analyze_audio_file: the source is decoded and exported, the metadata built
ProcAnalyze ==
    /\ seg_pc = "new"
    /\ LET audio_info == AnalyzedAudioInfo(RunFileId, "a.wav", SourceLen(audio)) IN
        /\ processed_files' = processed_files \cup {audio_info.filename}
        /\ resp' = [resp EXCEPT !.audio_info = audio_info]
    /\ seg_pc' = "loaded"
    /\ UNCHANGED <<seg_mode, seg_raw, seg_chunks, chunk_files, procFrame>>

\* _analyze_audio_file raises (the source cannot be decoded, or the export
\* fails, before or after it opened the processed file, which then stays
\* unfinished; the directory is held by its names); process_audio_file logs
\* and raises again
ProcAnalyzeRaises(error, opened) ==
    /\ seg_pc = "new"
    /\ error = "decode" => ~opened
    /\ seg_pc' = "raised"
    /\ processed_files' =
            IF opened THEN processed_files \cup {ProcessedFilename(RunFileId, "a.wav")}
            ELSE processed_files
    /\ resp' = [resp EXCEPT !.raised = Append(@, error)]
    /\ UNCHANGED <<seg_mode, seg_raw, seg_chunks, chunk_files, procFrame>>

\* _create_intelligent_chunks returns the chunks
ProcCreateChunks ==
    /\ seg_pc = "loaded"
    /\ \E silence_chunks \in {SplitOnSilence(audio, detect_fails)}, saved \in {RunChunks} :
        /\ seg_raw' = silence_chunks
        /\ seg_mode' = IF UseSilenceMode(silence_chunks) THEN "silence" ELSE "fallback"
        /\ seg_chunks' = [i \in DOMAIN saved |-> saved[i].chunk]
        /\ chunk_files' = WriteChunks(chunk_files, saved, Len(saved))
    /\ seg_pc' = "done"
    /\ UNCHANGED <<processed_files, resp, procFrame>>

\* _create_intelligent_chunks raises: the second decode of the source fails,
\* or the export of any one of the chunks, after the k chunks before it were
\* written and before it opened its own file (written is None) or after it
\* wrote a part of the chunk's audio into it, which then stays in the
\* directory; process_audio_file raises again
ProcCreateChunksRaises(error, written) ==
    /\ seg_pc = "loaded"
    /\ \E saved \in {RunChunks} :
        \E k \in 0..Len(saved) :
            /\ IF error = "decode" THEN k = 0 /\ written = Unset ELSE k < Len(saved)
            /\ written # Unset => written[1] < ALen(saved[k + 1].stored)
            /\ chunk_files' =
                    LeaveUnfinished(WriteChunks(chunk_files, saved, k),
                                    IF written = Unset THEN {}
                                    ELSE UnfinishedExport(saved[k + 1], written))
            /\ resp' = [resp EXCEPT !.raised = Append(@, error)]
    /\ seg_pc' = "raised"
    /\ UNCHANGED <<seg_mode, seg_raw, seg_chunks, processed_files, procFrame>>

\* process_audio_file completes its audio_info and returns (audio_info, chunks):
\* the object returned is the audio_info of the call
ProcReturns ==
    /\ seg_pc = "done"
    /\ \E audio_info \in {CompleteProcessing(resp.audio_info, seg_chunks)} :
        resp' = [resp EXCEPT !.audio_info = audio_info,
                             !.returned = Append(@, [audio_info |-> audio_info,
                                                     chunks |-> seg_chunks])]
    /\ seg_pc' = "returned"
    /\ UNCHANGED <<seg_mode, seg_raw, seg_chunks, chunk_files, processed_files,
                   procFrame>>

\* process_audio_file is called a second time on the same source
ProcAgain ==
    /\ seg_pc \in {"returned", "raised"}
    /\ resp.calls = 1
    /\ resp' = [resp EXCEPT !.calls = @ + 1, !.audio_info = None]
    /\ seg_pc' = "new"
    /\ seg_mode' = "none"
    /\ seg_raw' = <<>>
    /\ seg_chunks' = <<>>
    /\ UNCHANGED <<chunk_files, processed_files, procFrame>>

ProcNext ==
    \/ ProcAnalyze
    \/ \E error \in {"decode", "storage"}, opened \in BOOLEAN :
            ProcAnalyzeRaises(error, opened)
    \/ ProcCreateChunks
    \/ \E error \in {"decode", "storage"}, written \in Optional(WrittenLens) :
            ProcCreateChunksRaises(error, written)
    \/ ProcReturns
    \/ ProcAgain

SpecProcess == ProcInit /\ [][ProcNext]_vars

\* the metadata values a caller or the running call holds
HeldAudioInfos ==
    {resp.returned[i].audio_info : i \in DOMAIN resp.returned}
        \cup (IF resp.audio_info = None THEN {} ELSE {resp.audio_info})

\* C22: the metadata of _analyze_audio_file is PROCESSING; what
\* process_audio_file returns is COMPLETED with total_chunks equal to the
\* length of the returned chunk list; no metadata is COMPLETED with
\* total_chunks unset.
C22_CompletedHasCount ==
    /\ seg_pc \in {"loaded", "done"} =>
        /\ resp.audio_info.processing_status = "processing"
        /\ resp.audio_info.total_chunks = Unset
    /\ \A i \in DOMAIN resp.returned :
        /\ resp.returned[i].audio_info.processing_status = "completed"
        /\ resp.returned[i].audio_info.total_chunks = Some(Len(resp.returned[i].chunks))
    /\ seg_pc = "returned" =>
        /\ resp.returned # <<>>
        /\ resp.returned[Len(resp.returned)].chunks = seg_chunks
        /\ resp.returned[Len(resp.returned)].audio_info = resp.audio_info
    /\ \A info \in HeldAudioInfos :
        info.processing_status = "completed" => info.total_chunks # Unset

C22_Witness ==
    /\ seg_pc = "returned"
    /\ seg_mode = "silence"
    /\ Len(seg_chunks) >= 2
    /\ resp.returned[Len(resp.returned)].audio_info.total_chunks = Some(Len(seg_chunks))

----------------------------------------------------------------------------
(* SpecModel: construction of an AudioFileModel from keyword arguments.     *)
(* The class declares eight typed fields without a default, three with one,  *)
(* no Field constraint and no validator: pydantic rejects a call that leaves *)
(* a field without default out, and takes every str and every int.           *)

ModelIds == {"", "test123"}
ModelFileSizes == {-1, 0, 1024}
ModelDurations == {0, 60}
ModelStatuses == {"processing", "completed"}
ModelTotals == {3}

ModelFilenames == {"test.wav"}
ModelFormats == {"wav"}
ModelSampleRates == {44100}
ModelChannels == {2}

\* the fields of AudioFileModel without a default
RequiredFields == {"id", "filename", "original_filename", "file_size",
                   "duration_seconds", "format", "sample_rate", "channels"}

\* pydantic's generated __init__: required fields must be given; fields with a
\* default take it when they are not given
ConstructAudioFileModel(args) ==
    LET missing == {f \in RequiredFields : args[f] = Unset} IN
    IF missing # {}
    THEN [kind |-> "validation_error", args |-> args, missing |-> missing]
    ELSE [kind |-> "model", args |-> args,
          model |-> [id                |-> args.id[1],
                     filename          |-> args.filename[1],
                     original_filename |-> args.original_filename[1],
                     file_size         |-> args.file_size[1],
                     duration_seconds  |-> args.duration_seconds[1],
                     format            |-> args.format[1],
                     sample_rate       |-> args.sample_rate[1],
                     channels          |-> args.channels[1],
                     processing_status |-> IF args.processing_status = Unset
                                           THEN "pending"
                                           ELSE args.processing_status[1],
                     total_chunks      |-> args.total_chunks]]

ModelInit ==
    /\ \E id \in Optional(ModelIds), filename \in Optional(ModelFilenames),
          original_filename \in Optional(ModelFilenames),
          file_size \in Optional(ModelFileSizes),
          duration_seconds \in Optional(ModelDurations),
          format \in Optional(ModelFormats),
          sample_rate \in Optional(ModelSampleRates),
          channels \in Optional(ModelChannels),
          processing_status \in Optional(ModelStatuses),
          total_chunks \in Optional(ModelTotals) :
            resp = [kind |-> "args",
                    args |-> [id |-> id, filename |-> filename,
                              original_filename |-> original_filename,
                              file_size |-> file_size,
                              duration_seconds |-> duration_seconds,
                              format |-> format, sample_rate |-> sample_rate,
                              channels |-> channels,
                              processing_status |-> processing_status,
                              total_chunks |-> total_chunks]]
    /\ use_mock = FALSE
    /\ CallOff
    /\ BatchOff
    /\ SegOff
    /\ file_storage = <<>>
    /\ chunks_storage = <<>>
    /\ validations_storage = <<>>
    /\ processed_files = {}
    /\ jobs = <<>>

\* AudioFileModel(**args) returns the model
ModelConstructed ==
    /\ resp.kind = "args"
    /\ ConstructAudioFileModel(resp.args).kind = "model"
    /\ resp' = ConstructAudioFileModel(resp.args)
    /\ UNCHANGED <<callVars, batchVars, segVars, file_storage, chunks_storage,
                   validations_storage, processed_files, jobs>>

\* AudioFileModel(**args) raises ValidationError (a ValueError)
ModelRejected ==
    /\ resp.kind = "args"
    /\ ConstructAudioFileModel(resp.args).kind = "validation_error"
    /\ resp' = ConstructAudioFileModel(resp.args)
    /\ UNCHANGED <<callVars, batchVars, segVars, file_storage, chunks_storage,
                   validations_storage, processed_files, jobs>>

ModelNext == ModelConstructed \/ ModelRejected

SpecModel == ModelInit /\ [][ModelNext]_vars

\* C23: constructing an AudioFileModel with an empty id and a negative
\* file_size is rejected with a validation error.
C23_InvalidInputsRejected ==
    (/\ resp.kind \in {"model", "validation_error"}
     /\ \A f \in RequiredFields : resp.args[f] # Unset
     /\ resp.args.id = Some("")
     /\ resp.args.file_size[1] < 0)
        => resp.kind = "validation_error"

----------------------------------------------------------------------------
(* The batch (Spec) and the single call (SpecCall), continued               *)

\* C27: when a chunk ends in terminal failure the batch does not return:
\* once the collection loop meets the failure it raises, transcribe_file_chunks
\* stores no result for any chunk (those of the chunks that succeeded
\* included), transcriptions_storage stays as it was, and the exception is
\* logged and goes no further.
C27_FailureAbortsBatch ==
    /\ [](FailedTasks # {} =>
            /\ batch_pc # "returned"
            /\ transcriptions_storage = <<>>)
    /\ [](batch_pc = "raised" =>
            /\ FailedTasks # {}
            /\ transcriptions_storage = <<>>
            /\ Len(error_log) = 1
            /\ \E t \in FailedTasks : tout[t] = RaisedOut(error_log[1]))
    /\ [][(done_q # <<>> /\ Head(done_q) \in FailedTasks /\ Collect) =>
            /\ batch_pc' = "raised"
            /\ transcriptions_storage' = transcriptions_storage
            /\ results' = results]_vars
    /\ [][batch_pc = "raised" =>
            /\ batch_pc' = "raised"
            /\ transcriptions_storage' = transcriptions_storage
            /\ error_log' = error_log]_vars

\* the batch raised after the results of two chunks had been collected
C27_Witness ==
    /\ batch_pc = "raised"
    /\ Len(chunks) = 3
    /\ Len(results) = 2
    /\ Cardinality(OkTasks) >= 2
    /\ transcriptions_storage = <<>>
    /\ error_log # <<>>

\* SpecCallLive: SpecCall with the scheduling of the event loop: a request
\* that was sent is answered or times out (ClientTimeout), and a sleep ends.
SpecCallLive == CallInit /\ [][CallNext]_vars /\ WF_vars(CallNext)

CallEnded == c_pc \in {"returned", "raised"}

\* C28: whatever the remote answers, a transcribe_chunk call ends, with a
\* result or a raised failure, after at most max_retries requests and at most
\* max_retries - 1 backoff sleeps; the first successful answer ends it at once
\* with the text of that answer.
C28_CallTerminatesWithinRetries ==
    /\ [](/\ Calls <= max_retries
          /\ Len(c_sleeps) <= max_retries - 1
          /\ CallEnded <=> c_out # NoOut)
    /\ [](\A i \in DOMAIN c_resps :
            IsSuccess(c_resps[i]) =>
                /\ i = Len(c_resps)
                /\ c_pc = "returned"
                /\ c_out = ResultOut(TranscriptionResult(CallChunk, c_resps[i].text, FALSE)))
    /\ <>CallEnded
    /\ [][CallEnded => UNCHANGED vars]_vars

\* max_retries requests and max_retries - 1 sleeps were needed, and the last
\* request succeeded
C28_Witness ==
    /\ Calls = max_retries
    /\ Len(c_sleeps) = max_retries - 1
    /\ IsSuccess(c_resps[Calls])
    /\ c_pc = "returned"
    /\ c_out.result.raw_transcription = "hello"

\* C29: in one run of transcribe_multiple_chunks the completed counter starts
\* at 0, grows by exactly one with each collected result and at no other
\* step, never decreases, never exceeds len(chunks), and equals len(chunks)
\* when the function returns.
C29_CompletedCounter ==
    /\ [](batch_pc = "idle" => completed = 0)
    /\ [](/\ completed = Len(results)
          /\ completed <= Len(chunks)
          /\ batch_pc = "returned" => completed = Len(chunks))
    /\ [][/\ completed' \in {completed, completed + 1}
          /\ completed' = completed + 1 <=> Len(results') = Len(results) + 1
          /\ completed' = completed + 1 =>
                /\ done_q # <<>>
                /\ tout[Head(done_q)].kind = "result"
                /\ results'[Len(results')].chunk_id = Head(done_q)
                    \/ batch_pc' = "returned"]_vars

\* the batch of three chunks returned; the counter stands at three
C29_Witness ==
    /\ batch_pc = "returned"
    /\ Len(chunks) = 3
    /\ completed = 3
    /\ Len(results) = 3

BatchFinished == batch_pc \in {"returned", "raised"}

\* C30 (as claimed): when transcribe_multiple_chunks finishes, by returning or
\* by raising, every dispatched call has settled: no task is calling the
\* remote, sleeping before a retry or waiting for the semaphore.
C30_FinishedMeansSettled ==
    BatchFinished => \A t \in Tasks : tpc[t] \in {"ok", "failed"}

----------------------------------------------------------------------------
(* The stores of main.py (SpecApp), continued                               *)

\* the files that were uploaded and deleted since: they had a job scheduled
\* at upload, and file_storage loses an entry only in delete_file
DeletedFiles == DOMAIN jobs \ DOMAIN file_storage

\* C31 (as claimed): once delete_file(f) has succeeded, transcriptions_storage
\* holds no result for a chunk of f, also when the background transcription of
\* f was still running at the deletion and completes afterwards.
C31_NoResultAfterDelete ==
    \A f \in DeletedFiles :
        \A i \in DOMAIN jobs[f].chunks :
            jobs[f].chunks[i].id \notin DOMAIN transcriptions_storage

\* the part of a dict outside a set of keys is the same before and after
SameOutside(before, after, keys) ==
    /\ DOMAIN after \ keys = DOMAIN before \ keys
    /\ \A k \in DOMAIN before \ keys : after[k] = before[k]

\* C32: delete_file(f) for a stored file removes f from file_storage and
\* chunks_storage and every chunk of f from transcriptions_storage and
\* validations_storage, and leaves the records of every other file as they
\* were; for an unknown f it answers not-found and changes no store.
C32_DeleteRemovesOwnRecordsOnly ==
    [][\A f \in RequestFileIds :
        DeleteFile(f) =>
            IF f \in DOMAIN file_storage
            THEN LET ids == {ChunksOfFile(f)[i].id : i \in DOMAIN ChunksOfFile(f)} IN
                 /\ resp' = Message("File deleted successfully")
                 /\ f \notin DOMAIN file_storage'
                 /\ f \notin DOMAIN chunks_storage'
                 /\ DOMAIN transcriptions_storage' \cap ids = {}
                 /\ DOMAIN validations_storage' \cap ids = {}
                 /\ SameOutside(file_storage, file_storage', {f})
                 /\ SameOutside(chunks_storage, chunks_storage', {f})
                 /\ SameOutside(transcriptions_storage, transcriptions_storage', ids)
                 /\ SameOutside(validations_storage, validations_storage', ids)
            ELSE /\ resp' = HttpError(404, "File not found")
                 /\ UNCHANGED <<file_storage, chunks_storage, transcriptions_storage,
                                validations_storage>>]_vars

\* a file whose job had returned was deleted and its results are gone, while
\* another file is stored with its results
C32_Witness ==
    /\ resp = Message("File deleted successfully")
    /\ \E f \in DeletedFiles :
        /\ jobs[f].pc = "returned"
        /\ jobs[f].chunks # <<>>
        /\ \A i \in DOMAIN jobs[f].chunks :
                jobs[f].chunks[i].id \notin DOMAIN transcriptions_storage
    /\ \E g \in DOMAIN file_storage :
        /\ chunks_storage[g] # <<>>
        /\ \A i \in DOMAIN chunks_storage[g] :
                chunks_storage[g][i].id \in DOMAIN transcriptions_storage

\* SpecAppLive: SpecApp with the scheduling of the background tasks: the event
\* loop runs a scheduled job, and with every remote call answered the job's
\* batch ends, by returning or by raising.
SpecAppLive ==
    /\ AppInit
    /\ [][AppNext]_vars
    /\ \A f \in RequestFileIds :
            WF_vars(TranscriptionReturns(f) \/ TranscriptionRaises(f))

\* what the endpoints tell about the job of a stored file
StatusOf(f) == ProcessingProgress(f, ChunksOfFile(f), transcriptions_storage)

ReportsComplete(f) ==
    /\ StatusOf(f).chunks_processed = StatusOf(f).total_chunks
    /\ StatusOf(f).current_step = Complete

MarkedFailed(f) ==
    \/ file_storage[f].processing_status = "failed"
    \/ StatusOf(f).current_step \notin
            {Starting, Complete,
             InProgress(StatusOf(f).chunks_processed, StatusOf(f).total_chunks)}

\* C33 (as claimed): every job eventually becomes terminal: for every
\* uploaded file that is not deleted, get_processing_status eventually
\* reports chunks_processed = total_chunks ("complete") or the job is visibly
\* marked as failed; no job stays in "starting" forever.
C33_JobsBecomeTerminal ==
    \A f \in RequestFileIds :
        [](f \in DOMAIN file_storage =>
            <>(\/ f \notin DOMAIN file_storage
               \/ ReportsComplete(f)
               \/ MarkedFailed(f)))

\* SpecLive: Spec with the scheduling of the event loop: the batch starts, a
\* free slot is given to a waiting task, a request that was sent is answered
\* or times out, a sleep ends, and the collection loop is resumed when a task
\* has settled. The chunks are handed over in index order (the order plays no
\* part in the scheduling).
LiveInit ==
    /\ BatchInit
    /\ \A i \in DOMAIN chunks : chunks[i].chunk_index = i - 1

SpecLive ==
    /\ LiveInit
    /\ [][Next]_vars
    /\ WF_vars(StartBatch)
    /\ WF_vars(\E t \in Ids : Acquire(t))
    /\ \A k \in 0..(MaxChunks - 1) :
            /\ WF_vars(\E r \in BatchResponses : Respond(<<"uuid", k>>, r))
            /\ WF_vars(Wake(<<"uuid", k>>))
    /\ WF_vars(Collect)

HoldsSlot(state) == state \in {"calling", "sleeping"}

\* C34: a task holds its slot from its first request through its retries and
\* backoff sleeps and gives it back when its call ends, by a result and by a
\* raised failure alike; hence every chunk is eventually dispatched and its
\* call ends, and when no call fails the batch eventually returns, also with
\* more chunks than max_concurrent.
C34_SlotReleasedAndBatchReturns ==
    /\ [](batch_pc \notin {"off", "idle"} => sem + InFlight = max_concurrent)
    /\ [][batch_pc \notin {"off", "idle"} =>
            LET acquired == {t \in Tasks : ~HoldsSlot(tpc[t]) /\ HoldsSlot(tpc'[t])}
                released == {t \in Tasks : HoldsSlot(tpc[t]) /\ ~HoldsSlot(tpc'[t])}
            IN /\ sem' = sem - Cardinality(acquired) + Cardinality(released)
               /\ \A t \in acquired : tpc[t] = "waiting" /\ sem > 0
               /\ \A t \in released : tpc'[t] \in {"ok", "failed"}
               /\ \A t \in Tasks : tpc[t] \in {"ok", "failed"} => tpc'[t] = tpc[t]]_vars
    /\ <>AllSettled
    /\ <>(batch_pc = "returned" \/ FailedTasks # {})

\* three chunks went through one slot and the batch returned
C34_Witness ==
    /\ batch_pc = "returned"
    /\ max_concurrent = 1
    /\ Len(chunks) = 3
    /\ ~use_mock
    /\ sem = max_concurrent
    /\ Len(results) = 3

----------------------------------------------------------------------------
(* SpecExport: export_transcription applied to every content of the stores  *)
(* over the chunks of one stored file (the states of SpecStatus)            *)

ExportFormats == {"txt", "json", "xml"}
Placeholder == "[No transcription available]"

\* `sorted(chunks, key=lambda x: x.chunk_index)`: a stable insertion sort
RECURSIVE SortChunks(_)
SortChunks(cs) ==
    IF cs = <<>> THEN <<>>
    ELSE LET rest == SortChunks(SubSeq(cs, 1, Len(cs) - 1))
             last == cs[Len(cs)]
             pos == Cardinality({i \in DOMAIN rest : rest[i].chunk_index <= last.chunk_index})
         IN SubSeq(rest, 1, pos) \o <<last>> \o SubSeq(rest, pos + 1, Len(rest))

\* `{x:.1f}` of the float ms / 1000: the decimal with one digit nearest to the
\* float's exact value, a tie going to the even digit
FormatTenths(ms) ==
    LET scaled == BigMulSmall(FloatOfMs(ms), 10)
        whole == scaled[6] + scaled[7] * LimbBase
        up == \/ scaled[5] > 2^14
              \/ /\ scaled[5] = 2^14
                 /\ ((\E i \in 1..4 : scaled[i] # 0) \/ whole % 2 = 1)
        tenths == whole + (IF up THEN 1 ELSE 0)
    IN <<tenths \div 10, tenths % 10>>

\* `if validation: ... elif transcription: ... else: ...` (a stored model is
\* always true, whatever its text)
ExportText(validation, transcription) ==
    IF validation # None THEN validation.edited_text
    ELSE IF transcription # None THEN transcription.raw_transcription
    ELSE Placeholder

\* one entry of text_segments
TextSegment(chunk, include_timestamps) ==
    LET text == ExportText(DictGet(validations_storage, chunk.id),
                           DictGet(transcriptions_storage, chunk.id))
    IN [stamp |-> IF include_timestamps
                  THEN <<FormatTenths(chunk.start_time), FormatTenths(chunk.end_time)>>
                  ELSE <<>>,
        text |-> text]

TextSegments(file_chunks, include_timestamps) ==
    LET sorted == SortChunks(file_chunks)
    IN [i \in DOMAIN sorted |-> TextSegment(sorted[i], include_timestamps)]

\* the python types of the values of file_info.dict(): upload_timestamp is a
\* datetime, processing_status a str enum, total_chunks an int or None
FileInfoDictTypes(file_info) ==
    {"str", "int", "float", "datetime"}
        \cup (IF file_info.total_chunks = Unset THEN {"NoneType"} ELSE {})

\* json.dumps raises TypeError on a value that is none of these
JsonTypes == {"str", "int", "float", "bool", "NoneType", "list", "dict"}
JsonDumpsRaises(types) == types \ JsonTypes # {}

\* GET /api/files/{file_id}/export
ExportTranscription(file_id, format, include_timestamps) ==
    /\ resp' =
        IF file_id \notin DOMAIN file_storage
        THEN HttpError(404, "File not found")
        ELSE LET text_segments == TextSegments(ChunksOfFile(file_id), include_timestamps) IN
             CASE format = "txt" ->
                    [kind |-> "file", media_type |-> "text/plain",
                     filename |-> <<file_storage[file_id].original_filename,
                                   "_transcription.txt">>,
                     lines |-> text_segments]
               [] format = "json" ->
                    IF JsonDumpsRaises(FileInfoDictTypes(file_storage[file_id])
                                            \cup {"list", "str"})
                    THEN RaisedOut("TypeError")
                    ELSE [kind |-> "file", media_type |-> "application/json",
                          filename |-> <<file_storage[file_id].original_filename,
                                        "_transcription.json">>,
                          lines |-> text_segments]
               [] OTHER -> HttpError(400, "Unsupported format")
    /\ UNCHANGED <<file_storage, chunks_storage, transcriptions_storage,
                   validations_storage, processed_files, chunk_files, jobs,
                   error_log, batchLocalVars, segLocalVars, callVars>>

ExportNext ==
    \E f \in StatusRequestIds, format \in ExportFormats, include_timestamps \in BOOLEAN :
        ExportTranscription(f, format, include_timestamps)

SpecExport == StatusInit /\ [][ExportNext]_vars

\* the text the claim gives a chunk
ClaimedText(chunk) ==
    IF chunk.id \in DOMAIN validations_storage
    THEN validations_storage[chunk.id].edited_text
    ELSE IF chunk.id \in DOMAIN transcriptions_storage
         THEN transcriptions_storage[chunk.id].raw_transcription
         ELSE Placeholder

\* C35 (as claimed): export_transcription lists the chunks of a stored file in
\* ascending chunk_index, each with the validation's edited_text when there
\* is a validation, else the raw transcription when there is a result, else
\* the placeholder; it changes none of the four stores; an unknown file id and
\* an unsupported format give an error.
C35_ExportListsPreferredTexts ==
    [][\A f \in StatusRequestIds, format \in ExportFormats, ts \in BOOLEAN :
        ExportTranscription(f, format, ts) =>
            /\ UNCHANGED <<file_storage, chunks_storage, transcriptions_storage,
                           validations_storage>>
            /\ IF f \notin DOMAIN file_storage
               THEN resp'.kind = "error" /\ resp'.status = 404
               ELSE IF format \notin {"txt", "json"}
               THEN resp'.kind = "error" /\ resp'.status = 400
               ELSE /\ resp'.kind = "file"
                    /\ Len(resp'.lines) = Len(ChunksOfFile(f))
                    /\ \A i \in DOMAIN resp'.lines :
                        /\ ChunksOfFile(f)[i].chunk_index = i - 1
                        /\ resp'.lines[i].text = ClaimedText(ChunksOfFile(f)[i])]_vars

----------------------------------------------------------------------------
(* The stores of main.py (SpecApp): validations and the file records        *)

\* C36: every key of validations_storage is the id of a chunk of a stored
\* file, and the validation kept under a key carries that key as its
\* chunk_id whatever chunk_id the request body carried; validate_transcription
\* for a chunk id of no stored file answers not-found and changes no store.
C36_ValidationsOfStoredChunks ==
    /\ [](\A k \in DOMAIN validations_storage :
            /\ k \in AllChunkIds
            /\ validations_storage[k].chunk_id = k)
    /\ [][\A c \in RequestChunkIds, v \in ValidationEdits :
            (c \notin AllChunkIds /\ ValidateTranscription(c, v)) =>
                /\ resp' = HttpError(404, "Chunk not found")
                /\ UNCHANGED <<file_storage, chunks_storage, transcriptions_storage,
                               validations_storage>>]_vars

\* a validation is kept under a key other than the chunk_id its body carried,
\* after a file with a validated chunk was deleted and a request for a chunk
\* of no stored file was refused
C36_Witness ==
    /\ resp = HttpError(404, "Chunk not found")
    /\ DOMAIN jobs \ DOMAIN file_storage # {}
    /\ \E k \in DOMAIN validations_storage :
        \A v \in ValidationEdits : v.chunk_id # k

\* C37: file_storage and chunks_storage hold the same file ids; the
\* total_chunks of a stored file is the length of its chunk list; every chunk
\* of the list of file f carries file_id f.
C37_FileAndChunkRecordsAgree ==
    /\ DOMAIN file_storage = DOMAIN chunks_storage
    /\ \A f \in DOMAIN file_storage :
        /\ file_storage[f].total_chunks = Some(Len(chunks_storage[f]))
        /\ \A i \in DOMAIN chunks_storage[f] : chunks_storage[f][i].file_id = f

\* one file was uploaded and deleted, another is stored with its chunks
C37_Witness ==
    /\ DOMAIN jobs \ DOMAIN file_storage # {}
    /\ \E f \in DOMAIN file_storage :
        /\ chunks_storage[f] # <<>>
        /\ file_storage[f].total_chunks = Some(Len(chunks_storage[f]))

----------------------------------------------------------------------------
(* Claims about the segmentation (checked under SpecSeg), continued *)

\* the segments pydub cuts from the source, and the positions of those that
\* last at least min_chunk_duration
PydubSegments == PydubSplitOnSilence(audio, keep_silence)
LongEnough == {i \in DOMAIN PydubSegments : ALen(PydubSegments[i]) >= min_chunk_duration}

\* C38 (as claimed): the raw segments shorter than min_chunk_duration (5 s) are discarded
\* before combining, the others kept in order; when none remains, or no
\* silence was found, the whole source is the single raw segment; hence every
\* chunk emitted in silence-based mode lasts at least 5 s.
C38_ShortSegmentsDiscarded ==
    SegDone =>
        /\ IF detect_fails \/ DetectSilence(audio) = <<>> \/ LongEnough = {}
           THEN seg_raw = <<Whole(audio)>>
           ELSE /\ Len(seg_raw) = Cardinality(LongEnough)
                /\ \A i \in LongEnough :
                    seg_raw[Cardinality({j \in LongEnough : j <= i})] = PydubSegments[i]
        /\ seg_mode = "silence" =>
            \A i \in DOMAIN seg_chunks :
                /\ ~BigLess(seg_chunks[i].duration, FloatOfMs(min_chunk_duration))
                /\ ALen(StoredAudio(i)) >= min_chunk_duration

====
